---- MODULE Spec2Model ----
(***************************************************************************)
(* Workspace API (EOEPCA rm-workspace-api): the Storage records kept in    *)
(* the cluster, the derivation of a workspace's bucket access requests     *)
(* (views.py, _extract_relevant_bucket_access_requests) and the write path *)
(* of update_workspace, create_workspace and delete_workspace, with the    *)
(* Datalab records, the credentials secret and get_workspace_session.      *)
(***************************************************************************)
EXTENDS Integers, Sequences, FiniteSets, TLC

VARIABLES store, calls, resp, nCalls, lab

vars == <<store, calls, resp, nCalls, lab>>

(***************************************************************************)
(* Bounds of the model.                                                    *)
(***************************************************************************)
\* datetimes an API caller may send: 1..MaxT
MaxT == 2
\* API calls that write (create, update, delete) in one behaviour
MaxCalls == 2
\* update_workspace calls that may be in flight at once
MaxProcs == 2

(***************************************************************************)
(* Strings.  TLC has no access to the characters of a string, so every     *)
(* string the model uses is listed with its characters; strip, lower,      *)
(* replace and "in" are then computed on the characters as Python does.    *)
(***************************************************************************)
Chars(s) ==
    CASE s = "" -> <<>>
      [] s = "ws-a" -> <<"w", "s", "-", "a">>
      [] s = "ws-b" -> <<"w", "s", "-", "b">>
      [] s = "ws-zz" -> <<"w", "s", "-", "z", "z">>
      [] s = "other" -> <<"o", "t", "h", "e", "r">>
      [] s = "b-x" -> <<"b", "-", "x">>
      [] s = " b-x " -> <<" ", "b", "-", "x", " ">>
      [] s = "B_x" -> <<"B", "_", "x">>
      [] s = "ws" -> <<"w", "s">>
      [] s = "a" -> <<"a">>
      [] s = "b" -> <<"b">>
      [] s = "pa" -> <<"p", "a">>
      [] s = "pb" -> <<"p", "b">>
      [] s = "None" -> <<"N", "o", "n", "e">>
      [] s = "ReadOnly" -> <<"R", "e", "a", "d", "O", "n", "l", "y">>
      [] s = "WriteOnly" -> <<"W", "r", "i", "t", "e", "O", "n", "l", "y">>
      [] s = "ReadWrite" -> <<"R", "e", "a", "d", "W", "r", "i", "t", "e">>
      [] s = "read-only" -> <<"r", "e", "a", "d", "-", "o", "n", "l", "y">>
      [] s = "Admin" -> <<"A", "d", "m", "i", "n">>
      [] s = "none" -> <<"n", "o", "n", "e">>
      [] s = "readonly" -> <<"r", "e", "a", "d", "o", "n", "l", "y">>
      [] s = "writeonly" -> <<"w", "r", "i", "t", "e", "o", "n", "l", "y">>
      [] s = "readwrite" -> <<"r", "e", "a", "d", "w", "r", "i", "t", "e">>
      [] s = "requesting access" ->
            <<"r", "e", "q", "u", "e", "s", "t", "i", "n", "g", " ",
              "a", "c", "c", "e", "s", "s">>
      [] s = "need read only access" ->
            <<"n", "e", "e", "d", " ", "r", "e", "a", "d", " ", "o", "n", "l", "y",
              " ", "a", "c", "c", "e", "s", "s">>
      [] s = "ReadOnly please" ->
            <<"R", "e", "a", "d", "O", "n", "l", "y", " ", "p", "l", "e", "a", "s", "e">>
      [] s = "write-only" -> <<"w", "r", "i", "t", "e", "-", "o", "n", "l", "y">>
      [] s = "writeonly, not readonly" ->
            <<"w", "r", "i", "t", "e", "o", "n", "l", "y", ",", " ", "n", "o", "t", " ",
              "r", "e", "a", "d", "o", "n", "l", "y">>

\* the strings that are names (of workspaces, buckets, principals)
NameStrings ==
    {"", "ws", "a", "b", "ws-a", "ws-b", "ws-zz", "other", "b-x", " b-x ", "B_x", "pa", "pb"}

\* str.lower() on one character
LowerChar(c) ==
    CASE c = "A" -> "a" [] c = "B" -> "b" [] c = "N" -> "n" [] c = "O" -> "o"
      [] c = "R" -> "r" [] c = "W" -> "w" [] OTHER -> c

Lower(cs) == [i \in 1..Len(cs) |-> LowerChar(cs[i])]

\* str.strip() on characters: leading and trailing blanks go
RECURSIVE LStrip(_)
LStrip(cs) == IF cs # <<>> /\ Head(cs) = " " THEN LStrip(Tail(cs)) ELSE cs

RECURSIVE RStrip(_)
RStrip(cs) ==
    IF cs # <<>> /\ cs[Len(cs)] = " " THEN RStrip(SubSeq(cs, 1, Len(cs) - 1)) ELSE cs

StripChars(cs) == RStrip(LStrip(cs))

\* (s or "").strip() for a name: the name with the stripped characters
Strip(s) ==
    LET cs == Chars(s)
        stripped == StripChars(cs)
    IN IF stripped = cs THEN s ELSE CHOOSE t \in NameStrings : Chars(t) = stripped

\* str.replace(c, "") on characters
RECURSIVE RemoveChar(_, _)
RemoveChar(cs, c) ==
    IF cs = <<>> THEN <<>>
    ELSE IF Head(cs) = c THEN RemoveChar(Tail(cs), c)
    ELSE <<Head(cs)>> \o RemoveChar(Tail(cs), c)

\* Python's `sub in s` on characters
Contains(cs, sub) ==
    \E i \in 1..(Len(cs) - Len(sub) + 1) : SubSeq(cs, i, i + Len(sub) - 1) = sub

(***************************************************************************)
(* Values.  NONE is Python's None, ABSENT a key a dict does not have.      *)
(***************************************************************************)
NONE == "<None>"
ABSENT == "<absent>"

\* Python truthiness of a stored string-or-None value
Truthy(v) == v \notin {NONE, ABSENT, ""}

\* d.get(key): a missing key reads as None
Get(v) == IF v = ABSENT THEN NONE ELSE v

\* `v or ""`
OrEmpty(v) == IF Truthy(v) THEN v ELSE ""

\* a datetime is its day number; NoTime is None
NoTime == 0
Timestamps == 1..MaxT

BucketPermission == {"ReadWrite", "ReadOnly", "WriteOnly", "None"}

(***************************************************************************)
(* Timestamp strings: the day they name and the way they end (an offset,   *)
(* "Z", nothing), or text that is no ISO date at all.                      *)
(***************************************************************************)
TsText(s) ==
    CASE s = "2024-01-01T00:00:00+00:00" -> [iso |-> TRUE, day |-> 1, suffix |-> "+00:00"]
      [] s = "2024-01-02T00:00:00+00:00" -> [iso |-> TRUE, day |-> 2, suffix |-> "+00:00"]
      [] s = "2024-01-03T00:00:00+00:00" -> [iso |-> TRUE, day |-> 3, suffix |-> "+00:00"]
      [] s = "2024-01-04T00:00:00+00:00" -> [iso |-> TRUE, day |-> 4, suffix |-> "+00:00"]
      [] s = "2024-01-01T00:00:00Z" -> [iso |-> TRUE, day |-> 1, suffix |-> "Z"]
      [] s = "2024-01-02T00:00:00" -> [iso |-> TRUE, day |-> 2, suffix |-> ""]
      [] s = "yesterday" -> [iso |-> FALSE, day |-> 0, suffix |-> ""]

TsStrings ==
    {"2024-01-01T00:00:00+00:00", "2024-01-02T00:00:00+00:00", "2024-01-03T00:00:00+00:00",
     "2024-01-04T00:00:00+00:00", "2024-01-01T00:00:00Z", "2024-01-02T00:00:00", "yesterday"}

\* datetime.isoformat() of an aware UTC datetime
IsoFormat(t) == CHOOSE s \in TsStrings : TsText(s) = [iso |-> TRUE, day |-> t, suffix |-> "+00:00"]

\* _iso (views.py): None stays None
Iso(t) == IF t = NoTime THEN NONE ELSE IsoFormat(t)

\* BucketAccessRequest._parse_iso_dt followed by _ts_utc_opt: the datetime of a
\* stored value, or a ValueError
ParseIsoDt(v) ==
    IF v \in {NONE, ABSENT, ""} THEN [ok |-> TRUE, t |-> NoTime]
    ELSE LET x == TsText(v)
             \* "Z" becomes "+00:00"; a string with no offset gets "+00:00"
             suffix == IF x.suffix \in {"Z", ""} THEN "+00:00" ELSE x.suffix
         IN IF x.iso /\ suffix = "+00:00" THEN [ok |-> TRUE, t |-> x.day]
            ELSE [ok |-> FALSE, t |-> NoTime]

(***************************************************************************)
(* models.py: bucket names.                                                *)
(***************************************************************************)
AllowedChars ==
    {"a", "b", "c", "d", "e", "f", "g", "h", "i", "j", "k", "l", "m", "n", "o", "p", "q",
     "r", "s", "t", "u", "v", "w", "x", "y", "z", "0", "1", "2", "3", "4", "5", "6", "7",
     "8", "9", "-", "."}

IsS3BucketName(cs) ==
    /\ 3 <= Len(cs) /\ Len(cs) <= 63
    /\ \A i \in 1..Len(cs) : cs[i] \in AllowedChars
    /\ cs[1] \notin {".", "-"} /\ cs[Len(cs)] \notin {".", "-"}
    /\ ~Contains(cs, <<".", ".">>) /\ ~Contains(cs, <<".", "-">>)
    /\ ~Contains(cs, <<"-", ".">>)

\* _validate_bucket_name: TRUE when the stripped name passes
ValidBucketName(name) == IsS3BucketName(StripChars(Chars(name)))

(***************************************************************************)
(* views.py: permissions.                                                  *)
(***************************************************************************)
\* _perm_from_str with an unknown string read as a grant of ReadOnly
PermFromStrLenient(s) ==
    LET raw == RemoveChar(RemoveChar(Lower(StripChars(Chars(IF Truthy(s) THEN s ELSE "none"))),
                                     "_"), "-")
    IN CASE raw = Chars("none") -> "None"
         [] raw = Chars("readwrite") -> "ReadWrite"
         [] raw = Chars("writeonly") -> "WriteOnly"
         [] raw = Chars("readonly") -> "ReadOnly"
         [] OTHER -> "ReadOnly"

PermFromStr(s) ==
    LET raw == RemoveChar(RemoveChar(Lower(StripChars(Chars(IF Truthy(s) THEN s ELSE "none"))),
                                     "_"), "-")
    IN CASE raw = Chars("none") -> "None"
         [] raw = Chars("readwrite") -> "ReadWrite"
         [] raw = Chars("writeonly") -> "WriteOnly"
         [] raw = Chars("readonly") -> "ReadOnly"
         [] OTHER -> "None"

\* the inference with the tests for write-only made first
PermFromReasonWriteFirst(reasonValue) ==
    LET reason == Lower(StripChars(Chars(OrEmpty(reasonValue))))
    IN IF Contains(reason, Chars("writeonly")) \/ Contains(reason, Chars("write-only"))
       THEN "WriteOnly"
       ELSE IF Contains(reason, Chars("readonly")) \/ Contains(reason, Chars("read-only"))
       THEN "ReadOnly"
       ELSE "ReadWrite"

\* the permission inferred from a request's reason (views.py 343-350)
PermFromReason(reasonValue) ==
    LET reason == Lower(StripChars(Chars(OrEmpty(reasonValue))))
    IN IF Contains(reason, Chars("readonly")) \/ Contains(reason, Chars("read-only"))
       THEN "ReadOnly"
       ELSE IF Contains(reason, Chars("writeonly")) \/ Contains(reason, Chars("write-only"))
       THEN "WriteOnly"
       ELSE "ReadWrite"

\* _as_bool on a bool
AsBool(v) == v

\* _dedup_preserve
RECURSIVE DedupPreserve(_)
DedupPreserve(items) ==
    IF items = <<>> THEN <<>>
    ELSE LET init == DedupPreserve(SubSeq(items, 1, Len(items) - 1))
             it == items[Len(items)]
         IN IF it # "" /\ \A i \in 1..Len(init) : init[i] # it
            THEN Append(init, it) ELSE init

SeqRange(s) == {s[i] : i \in 1..Len(s)}

(***************************************************************************)
(* The Storage records.  A record's spec holds the principal and three     *)
(* lists; an entry of a list is a dict (isDict) or anything else.          *)
(***************************************************************************)
Workspaces == {"ws-a", "ws-b"}

\* the order in which the cluster lists the Storage records
ListOrder == <<"ws-a", "ws-b">>

NoRecord ==
    [present |-> FALSE, principal |-> "", buckets |-> <<>>, requests |-> <<>>,
     grants |-> <<>>]

Bucket(name, discoverable) ==
    [isDict |-> TRUE, bucketName |-> name, discoverable |-> discoverable]

RawRequest(bucket, reason, requestedAt) ==
    [isDict |-> TRUE, bucketName |-> bucket, reason |-> reason, requestedAt |-> requestedAt]

RawGrant(bucket, grantee, permission, grantedAt) ==
    [isDict |-> TRUE, bucketName |-> bucket, grantee |-> grantee,
     permission |-> permission, grantedAt |-> grantedAt, requestedAt |-> ABSENT]

\* storage_api.get(namespace=...).items
StorageItems(st) ==
    LET Present(i) == st[ListOrder[i]].present
        RECURSIVE Items(_)
        Items(i) ==
            IF i = 0 THEN <<>>
            ELSE IF Present(i)
                 THEN Append(Items(i - 1), [name |-> ListOrder[i], spec |-> st[ListOrder[i]]])
                 ELSE Items(i - 1)
    IN Items(Len(ListOrder))

(***************************************************************************)
(* The derived view: BucketAccessRequest (models.py) with its private      *)
(* _principal.  Building one validates it; a failed validation raises.     *)
(***************************************************************************)
NewBucketAccessRequest(workspace, bucket, permission, requestedAt, principal) ==
    LET ts == ParseIsoDt(requestedAt)
    IN [ok |-> /\ Strip(workspace) # ""
               /\ Strip(bucket) # ""
               /\ ValidBucketName(bucket)
               /\ ts.ok,
        e |-> [workspace |-> Strip(workspace), bucket |-> Strip(bucket),
               permission |-> permission, request_timestamp |-> ts.t,
               grant_timestamp |-> NoTime, denied_timestamp |-> NoTime,
               principal |-> principal]]

\* the lists of all items, each entry tagged with the record it is in
RECURSIVE Tagged(_, _)
Tagged(items, field) ==
    IF items = <<>> THEN <<>>
    ELSE LET it == Head(items)
             l == it.spec[field]
         IN [i \in 1..Len(l) |->
                [ws |-> it.name, principal |-> Strip(OrEmpty(it.spec.principal)), x |-> l[i]]]
            \o Tagged(Tail(items), field)

\* the explicit loop without the test for a requestedAt
ExplicitRequestUndated(acc, tr, discoverable, currentPrincipal) ==
    LET r == tr.x
        bucketName == Strip(OrEmpty(Get(r.bucketName)))
        made == NewBucketAccessRequest(tr.ws, bucketName, PermFromReason(Get(r.reason)),
                                       r.requestedAt, tr.principal)
    IN IF ~acc.ok THEN acc
       ELSE IF tr.principal = "" THEN acc
       ELSE IF ~r.isDict THEN acc
       ELSE IF bucketName = "" THEN acc
       ELSE IF ~(tr.principal = currentPrincipal \/ bucketName \in SeqRange(discoverable))
       THEN acc
       ELSE IF ~made.ok THEN [ok |-> FALSE, out |-> acc.out]
       ELSE [ok |-> TRUE, out |-> Append(acc.out, made.e)]

\* views.py 315-361: one stored request of one record
ExplicitRequest(acc, tr, discoverable, currentPrincipal) ==
    LET r == tr.x
        bucketName == Strip(OrEmpty(Get(r.bucketName)))
        made == NewBucketAccessRequest(tr.ws, bucketName, PermFromReason(Get(r.reason)),
                                       r.requestedAt, tr.principal)
    IN IF ~acc.ok THEN acc
       ELSE IF tr.principal = "" THEN acc
       ELSE IF ~r.isDict THEN acc
       ELSE IF bucketName = "" THEN acc
       ELSE IF ~(tr.principal = currentPrincipal \/ bucketName \in SeqRange(discoverable))
       THEN acc
       ELSE IF ~Truthy(Get(r.requestedAt)) THEN acc
       ELSE IF ~made.ok THEN [ok |-> FALSE, out |-> acc.out]
       ELSE [ok |-> TRUE, out |-> Append(acc.out, made.e)]

\* the implicit loop without the test for the target's own discoverable buckets
ImplicitRequestOwnBuckets(acc, tb, discoverable, currentPrincipal, currentWorkspace) ==
    LET b == tb.x
        bucketName == Strip(OrEmpty(Get(b.bucketName)))
        existing == {acc.out[i].bucket : i \in 1..Len(acc.out)}
        made == NewBucketAccessRequest(currentWorkspace, bucketName, "ReadWrite", NONE,
                                       currentPrincipal)
    IN IF ~acc.ok THEN acc
       ELSE IF ~b.isDict \/ ~AsBool(b.discoverable) THEN acc
       ELSE IF bucketName = "" \/ bucketName \in existing THEN acc
       ELSE IF ~made.ok THEN [ok |-> FALSE, out |-> acc.out]
       ELSE [ok |-> TRUE, out |-> Append(acc.out, made.e)]

\* views.py 363-389: one bucket of one record
ImplicitRequest(acc, tb, discoverable, currentPrincipal, currentWorkspace) ==
    LET b == tb.x
        bucketName == Strip(OrEmpty(Get(b.bucketName)))
        existing == {acc.out[i].bucket : i \in 1..Len(acc.out)}
        made == NewBucketAccessRequest(currentWorkspace, bucketName, "ReadWrite", NONE,
                                       currentPrincipal)
    IN IF ~acc.ok THEN acc
       ELSE IF ~b.isDict \/ ~AsBool(b.discoverable) THEN acc
       ELSE IF bucketName = "" \/ bucketName \in existing
                 \/ bucketName \in SeqRange(discoverable)
       THEN acc
       ELSE IF ~made.ok THEN [ok |-> FALSE, out |-> acc.out]
       ELSE [ok |-> TRUE, out |-> Append(acc.out, made.e)]

\* the last entry of out a grant for (bucket, grantee) matches, 0 if none
LastMatch(out, bucketName, grantee) ==
    LET hits == {i \in 1..Len(out) : out[i].bucket = bucketName /\ out[i].principal = grantee}
    IN IF hits = {} THEN 0 ELSE CHOOSE i \in hits : \A j \in hits : j <= i

\* the first entry of out a grant for (bucket, grantee) matches, 0 if none
FirstMatch(out, bucketName, grantee) ==
    LET hits == {i \in 1..Len(out) : out[i].bucket = bucketName /\ out[i].principal = grantee}
    IN IF hits = {} THEN 0 ELSE CHOOSE i \in hits : \A j \in hits : i <= j

\* the assignments with grant_timestamp set whatever the permission is
ApplyGrantBoth(e, g) ==
    LET grantedAt == IF Truthy(Get(g.grantedAt)) THEN g.grantedAt ELSE NONE
        rt == ParseIsoDt(IF Truthy(Get(g.requestedAt)) THEN g.requestedAt ELSE grantedAt)
        gt == ParseIsoDt(grantedAt)
        perm == PermFromStr(Get(g.permission))
    IN [ok |-> rt.ok /\ gt.ok,
        e |-> [e EXCEPT !.request_timestamp = rt.t,
                        !.grant_timestamp = gt.t,
                        !.denied_timestamp = IF perm = "None" THEN gt.t ELSE NoTime]]

\* the assignments with the grant's permission written to the matched entry too
ApplyGrantWithPermission(e, g) ==
    LET grantedAt == IF Truthy(Get(g.grantedAt)) THEN g.grantedAt ELSE NONE
        rt == ParseIsoDt(IF Truthy(Get(g.requestedAt)) THEN g.requestedAt ELSE grantedAt)
        gt == ParseIsoDt(grantedAt)
        perm == PermFromStr(Get(g.permission))
    IN [ok |-> rt.ok /\ gt.ok,
        e |-> [e EXCEPT !.permission = perm,
                        !.request_timestamp = rt.t,
                        !.grant_timestamp = IF perm # "None" THEN gt.t ELSE NoTime,
                        !.denied_timestamp = IF perm = "None" THEN gt.t ELSE NoTime]]

\* views.py 417-425: the assignments to the matched entry (validate_assignment)
ApplyGrant(e, g) ==
    LET grantedAt == IF Truthy(Get(g.grantedAt)) THEN g.grantedAt ELSE NONE
        rt == ParseIsoDt(IF Truthy(Get(g.requestedAt)) THEN g.requestedAt ELSE grantedAt)
        gt == ParseIsoDt(grantedAt)
        perm == PermFromStr(Get(g.permission))
    IN [ok |-> rt.ok /\ gt.ok,
        e |-> [e EXCEPT !.request_timestamp = rt.t,
                        !.grant_timestamp = IF perm # "None" THEN gt.t ELSE NoTime,
                        !.denied_timestamp = IF perm = "None" THEN gt.t ELSE NoTime]]

\* the grant loop with a grant that matches no entry surfaced as an entry of its own
MatchGrantInvent(acc, tg) ==
    LET g == tg.x
        grantee == Strip(OrEmpty(Get(g.grantee)))
        bucketName == Strip(OrEmpty(Get(g.bucketName)))
        i == FirstMatch(acc.out, bucketName, grantee)
        set == ApplyGrant(acc.out[i], g)
        made == NewBucketAccessRequest(tg.ws, bucketName, PermFromStr(Get(g.permission)),
                                       g.grantedAt, grantee)
    IN IF ~acc.ok THEN acc
       ELSE IF ~g.isDict THEN acc
       ELSE IF grantee = "" \/ bucketName = "" THEN acc
       ELSE IF ~Truthy(Get(g.grantedAt)) THEN acc
       ELSE IF i = 0
       THEN IF made.ok THEN [ok |-> TRUE, out |-> Append(acc.out, made.e)] ELSE acc
       ELSE IF ~set.ok THEN [ok |-> FALSE, out |-> acc.out]
       ELSE [ok |-> TRUE, out |-> [acc.out EXCEPT ![i] = set.e]]

\* views.py 391-425: one stored grant of one record
MatchGrant(acc, tg) ==
    LET g == tg.x
        grantee == Strip(OrEmpty(Get(g.grantee)))
        bucketName == Strip(OrEmpty(Get(g.bucketName)))
        i == FirstMatch(acc.out, bucketName, grantee)
        set == ApplyGrant(acc.out[i], g)
    IN IF ~acc.ok THEN acc
       ELSE IF ~g.isDict THEN acc
       ELSE IF grantee = "" \/ bucketName = "" THEN acc
       ELSE IF ~Truthy(Get(g.grantedAt)) THEN acc
       ELSE IF i = 0 THEN acc
       ELSE IF ~set.ok THEN [ok |-> FALSE, out |-> acc.out]
       ELSE [ok |-> TRUE, out |-> [acc.out EXCEPT ![i] = set.e]]

RECURSIVE ExplicitLoop(_, _, _, _)
ExplicitLoop(acc, trs, discoverable, currentPrincipal) ==
    IF trs = <<>> THEN acc
    ELSE ExplicitLoop(ExplicitRequest(acc, Head(trs), discoverable, currentPrincipal),
                      Tail(trs), discoverable, currentPrincipal)

RECURSIVE ImplicitLoop(_, _, _, _, _)
ImplicitLoop(acc, tbs, discoverable, currentPrincipal, currentWorkspace) ==
    IF tbs = <<>> THEN acc
    ELSE ImplicitLoop(ImplicitRequest(acc, Head(tbs), discoverable, currentPrincipal,
                                      currentWorkspace),
                      Tail(tbs), discoverable, currentPrincipal, currentWorkspace)

RECURSIVE GrantLoop(_, _)
GrantLoop(acc, tgs) ==
    IF tgs = <<>> THEN acc ELSE GrantLoop(MatchGrant(acc, Head(tgs)), Tail(tgs))

\* _extract_relevant_bucket_access_requests on the listed items: ok is FALSE when
\* it raises
ExtractFrom(items, discoverable, currentPrincipal, currentWorkspace) ==
    LET explicit == ExplicitLoop([ok |-> TRUE, out |-> <<>>], Tagged(items, "requests"),
                                 discoverable, currentPrincipal)
        implicit == ImplicitLoop(explicit, Tagged(items, "buckets"), discoverable,
                                 currentPrincipal, currentWorkspace)
    IN GrantLoop(implicit, Tagged(items, "grants"))

\* views.py 300-306: a failed listing is logged and read as no items
ListedItems(st, listFails) == IF listFails THEN <<>> ELSE StorageItems(st)

(***************************************************************************)
(* config.PREFIX_FOR_NAME and the path pattern of workspace names.         *)
(***************************************************************************)
PREFIX_FOR_NAME == "ws"

\* _with_prefix
WithPrefix(name) ==
    CHOOSE t \in NameStrings : Chars(t) = Chars(PREFIX_FOR_NAME) \o <<"-">> \o Chars(name)

\* re.search(WORKSPACE_NAME_PATTERN, name) with a prefix configured: "^ws-"
MatchesNamePattern(name) ==
    LET want == Chars(PREFIX_FOR_NAME) \o <<"-">>
        cs == Chars(name)
    IN Len(cs) >= Len(want) /\ SubSeq(cs, 1, Len(want)) = want

(***************************************************************************)
(* The Datalab records, the credentials secrets and the configuration the  *)
(* API runs with.  A Datalab holds its users, the sessions its spec        *)
(* declares and the sessions its status reports a URL for.                 *)
(***************************************************************************)
SessionIds == {"default", "s1"}

\* the status of a Datalab without a URL for any session
NoUrls == [id \in SessionIds |-> ""]

NoDatalab == [present |-> FALSE, users |-> <<>>, sessions |-> <<>>, urls |-> NoUrls]

\* create_workspace 659-675: the Datalab a new workspace gets
NewDatalab(owner, sessionMode) ==
    [present |-> TRUE, users |-> <<owner>>,
     sessions |-> IF sessionMode = "on" THEN <<"default">> ELSE <<>>, urls |-> NoUrls]

\* what reading the storage credentials secret of a principal comes to: no such
\* secret, one without data, one with the keys, one whose data is no base64 or
\* no UTF-8 text, and a read the cluster refuses
SecretStates == {"absent", "empty", "keys", "bad_base64", "not_utf8", "forbidden"}

\* fetch_secret(_storage_secret_name_for(principal), ...): no secret is read when
\* no STORAGE_SECRET_NAME is configured
FetchSecret(l, principal) ==
    IF ~l.storageSecretName THEN "absent"
    ELSE IF principal \in DOMAIN l.secrets THEN l.secrets[principal]
    ELSE "absent"

\* the credentials built from any secret that has data, decodable or not
StorageCredentialsAnyData(secret, buckets, allBuckets) ==
    CASE secret = "forbidden" -> [ok |-> FALSE, error |-> "ApiException", built |-> FALSE]
      [] secret \in {"keys", "bad_base64", "not_utf8"} ->
            [ok |-> TRUE, error |-> "", built |-> TRUE]
      [] OTHER -> [ok |-> TRUE, error |-> "", built |-> FALSE]

\* _combine_workspace 525-564: whether a Credentials object is built; ok is FALSE
\* when the read or the decoding raises past the handler
StorageCredentials(secret, buckets, allBuckets) ==
    CASE secret = "forbidden" -> [ok |-> FALSE, error |-> "ApiException", built |-> FALSE]
      [] secret = "not_utf8" -> [ok |-> FALSE, error |-> "UnicodeDecodeError", built |-> FALSE]
      [] secret = "bad_base64" -> [ok |-> TRUE, error |-> "", built |-> FALSE]
      [] secret = "keys" ->
            IF buckets # <<>> /\ allBuckets = <<>>
            THEN [ok |-> FALSE, error |-> "IndexError", built |-> FALSE]
            ELSE [ok |-> TRUE, error |-> "", built |-> TRUE]
      [] OTHER -> [ok |-> TRUE, error |-> "", built |-> FALSE]

\* _combine_workspace 570
WorkspaceStatus(credentials) == IF credentials THEN "ready" ELSE "provisioning"

(***************************************************************************)
(* Responses of the API: the HTTP status, for get_workspace the view and   *)
(* the workspace status, for a session its URL or the time to retry.       *)
(***************************************************************************)
Response(op, ws, status, error) ==
    [op |-> op, ws |-> ws, status |-> status, error |-> error, listFailed |-> FALSE,
     buckets |-> <<>>, requests |-> <<>>, workspaceStatus |-> "", session |-> "",
     url |-> "", html |-> FALSE, retryAfter |-> 0]

NoResponse == Response("none", "", 0, "")

\* _combine_workspace 448-458: the names of all buckets and of the discoverable ones
RECURSIVE BucketNames(_, _)
BucketNames(buckets, onlyDiscoverable) ==
    IF buckets = <<>> THEN <<>>
    ELSE LET it == buckets[Len(buckets)]
             init == BucketNames(SubSeq(buckets, 1, Len(buckets) - 1), onlyDiscoverable)
             bname == Strip(OrEmpty(Get(it.bucketName)))
         IN IF bname = "" \/ (onlyDiscoverable /\ ~AsBool(it.discoverable)) THEN init
            ELSE Append(init, bname)

\* _combine_workspace as far as the storage view and the status go; get_workspace
\* answers with it
CombineWorkspace(st, name, listFails, l) ==
    LET spec == st[name]
        principal == IF Truthy(spec.principal) THEN spec.principal ELSE name
        allBuckets == BucketNames(spec.buckets, FALSE)
        discoverable == DedupPreserve(BucketNames(spec.buckets, TRUE))
        ex == ExtractFrom(ListedItems(st, listFails), discoverable, principal, name)
        credentials == StorageCredentials(FetchSecret(l, principal), spec.buckets, allBuckets)
    IN IF name \notin Workspaces \/ ~st[name].present
       THEN Response("get_workspace", name, 404, "not_found")
       ELSE IF \E i \in 1..Len(spec.buckets) : ~spec.buckets[i].isDict
       THEN Response("get_workspace", name, 500, "AttributeError")
       ELSE IF ~ex.ok
       THEN Response("get_workspace", name, 500, "ValidationError: BucketAccessRequest")
       ELSE IF ~credentials.ok
       THEN Response("get_workspace", name, 500, credentials.error)
       ELSE IF \E i \in 1..Len(allBuckets) : ~ValidBucketName(allBuckets[i])
       THEN Response("get_workspace", name, 500, "ValidationError: Bucket")
       ELSE [Response("get_workspace", name, 200, "") EXCEPT
                !.listFailed = listFails, !.buckets = allBuckets, !.requests = ex.out,
                !.workspaceStatus = WorkspaceStatus(credentials.built)]

(***************************************************************************)
(* update_workspace (views.py 764-885): the inputs and the patch it builds. *)
(***************************************************************************)
\* a patch_bucket_access_requests item as pydantic hands it over
PatchOp(workspace, bucket, permission, requestTs, grantTs, deniedTs) ==
    [workspace |-> workspace, bucket |-> bucket, permission |-> permission,
     request_timestamp |-> requestTs, grant_timestamp |-> grantTs,
     denied_timestamp |-> deniedTs]

\* WorkspaceEdit._require_min_fields_and_dedup: one item per (workspace, bucket,
\* request_timestamp), the later item at the place of the first
RECURSIVE RequireMinFieldsAndDedup(_)
RequireMinFieldsAndDedup(items) ==
    IF items = <<>> THEN <<>>
    ELSE LET init == RequireMinFieldsAndDedup(SubSeq(items, 1, Len(items) - 1))
             r == items[Len(items)]
             Key(o) == <<o.workspace, o.bucket, o.request_timestamp>>
             same == {j \in 1..Len(init) : Key(init[j]) = Key(r)}
         IN IF same = {} THEN Append(init, r)
            ELSE [init EXCEPT ![CHOOSE j \in same : TRUE] = r]

\* add_buckets appended without a look at the names the record has
AddBucketsAlways(buckets, addBuckets) ==
    buckets \o [i \in 1..Len(addBuckets) |-> Bucket(addBuckets[i], TRUE)]

\* views.py 776-780: existing_names is built once, before the loop
AddBuckets(buckets, addBuckets) ==
    LET existingNames == SeqRange(BucketNames(buckets, FALSE))
        RECURSIVE Added(_)
        Added(names) ==
            IF names = <<>> THEN <<>>
            ELSE IF Head(names) \notin existingNames
                 THEN <<Bucket(Head(names), TRUE)>> \o Added(Tail(names))
                 ELSE Added(Tail(names))
    IN buckets \o Added(addBuckets)

\* req_by_bucket[bucket]: a dict comprehension keeps the last entry of a key
RequestIndex(requests, bucket) ==
    LET hits == {i \in 1..Len(requests) :
                    requests[i].isDict
                    /\ Strip(OrEmpty(Get(requests[i].bucketName))) = bucket}
    IN IF hits = {} THEN 0 ELSE CHOOSE i \in hits : \A j \in hits : j <= i

\* gr_by_key[(bucket, grantee)]
GrantIndex(grants, bucket, grantee) ==
    LET hits == {i \in 1..Len(grants) :
                    /\ grants[i].isDict
                    /\ Strip(OrEmpty(Get(grants[i].bucketName))) = bucket
                    /\ Strip(OrEmpty(Get(grants[i].grantee))) = grantee}
    IN IF hits = {} THEN 0 ELSE CHOOSE i \in hits : \A j \in hits : j <= i

\* the request path with requestedAt assigned instead of setdefault
UpsertRequestLastWins(requests, bucket, p) ==
    LET i == RequestIndex(requests, bucket)
    IN IF i = 0
       THEN Append(requests, RawRequest(bucket, "requesting access", Iso(p.request_timestamp)))
       ELSE [requests EXCEPT ![i].requestedAt = Iso(p.request_timestamp)]

\* the request path with the op's permission stored as the reason
UpsertRequestWithPermission(requests, bucket, p) ==
    LET i == RequestIndex(requests, bucket)
        reason == CASE p.permission = "ReadOnly" -> "readonly"
                    [] p.permission = "WriteOnly" -> "writeonly"
                    [] OTHER -> "requesting access"
    IN IF i = 0
       THEN Append(requests, RawRequest(bucket, reason, Iso(p.request_timestamp)))
       ELSE IF requests[i].requestedAt = ABSENT
       THEN [requests EXCEPT ![i].requestedAt = Iso(p.request_timestamp)]
       ELSE requests

\* views.py 795-807: the op names the patched workspace itself
UpsertRequest(requests, bucket, p) ==
    LET i == RequestIndex(requests, bucket)
    IN IF i = 0
       THEN Append(requests, RawRequest(bucket, "requesting access", Iso(p.request_timestamp)))
       ELSE IF requests[i].requestedAt = ABSENT
       THEN [requests EXCEPT ![i].requestedAt = Iso(p.request_timestamp)]
       ELSE requests

\* the decision with the grant looked at before the denial
DecisionGrantFirst(p) ==
    IF p.grant_timestamp # NoTime
    THEN [any |-> TRUE, permission |-> PermFromStr(p.permission),
          grantedAt |-> Iso(p.grant_timestamp)]
    ELSE IF p.denied_timestamp # NoTime
    THEN [any |-> TRUE, permission |-> "None", grantedAt |-> Iso(p.denied_timestamp)]
    ELSE [any |-> FALSE, permission |-> "None", grantedAt |-> NONE]

\* views.py 843-850: the decision an op carries; none when it has neither timestamp
Decision(p) ==
    IF p.denied_timestamp # NoTime
    THEN [any |-> TRUE, permission |-> "None", grantedAt |-> Iso(p.denied_timestamp)]
    ELSE IF p.grant_timestamp # NoTime
    THEN [any |-> TRUE, permission |-> PermFromStr(p.permission),
          grantedAt |-> Iso(p.grant_timestamp)]
    ELSE [any |-> FALSE, permission |-> "None", grantedAt |-> NONE]

\* the grant path without gr_by_key: every decision is appended
UpsertGrantAppend(grants, bucket, granteePrincipal, p) ==
    LET d == Decision(p)
    IN IF ~d.any THEN grants
       ELSE Append(grants, RawGrant(bucket, granteePrincipal, d.permission, d.grantedAt))

\* views.py 840-863: the op names another workspace, whose principal is the grantee
UpsertGrant(grants, bucket, granteePrincipal, p) ==
    LET i == GrantIndex(grants, bucket, granteePrincipal)
        d == Decision(p)
    IN IF ~d.any THEN grants
       ELSE IF i = 0
       THEN Append(grants, RawGrant(bucket, granteePrincipal, d.permission, d.grantedAt))
       ELSE [grants EXCEPT ![i].permission = d.permission, ![i].grantedAt = d.grantedAt]

\* the loop with an op whose grantee cannot be resolved skipped, not refused
ApplyPatchOpSkipUnresolved(acc, p, workspaceName, st) ==
    LET bucket == Strip(p.bucket)
        known == p.workspace \in Workspaces /\ st[p.workspace].present
        granteePrincipal == Strip(OrEmpty(st[p.workspace].principal))
    IN IF acc.err # "" THEN acc
       ELSE IF bucket = "" THEN acc
       ELSE IF p.workspace = workspaceName
       THEN [acc EXCEPT !.requests = UpsertRequest(acc.requests, bucket, p)]
       ELSE IF ~known THEN acc
       ELSE IF granteePrincipal = "" THEN acc
       ELSE [acc EXCEPT !.grants = UpsertGrant(acc.grants, bucket, granteePrincipal, p)]

\* the loop with one path for every op: a claim that carries a decision is
\* stored as a grant to the patched workspace's own principal as well
ApplyPatchOpOnePath(acc, p, workspaceName, st) ==
    LET bucket == Strip(p.bucket)
        known == p.workspace \in Workspaces /\ st[p.workspace].present
        granteePrincipal == Strip(OrEmpty(st[p.workspace].principal))
    IN IF acc.err # "" THEN acc
       ELSE IF bucket = "" THEN acc
       ELSE IF ~known THEN [acc EXCEPT !.err = "invalid_workspace"]
       ELSE IF granteePrincipal = "" THEN [acc EXCEPT !.err = "missing_principal"]
       ELSE [acc EXCEPT
                !.requests = IF p.workspace = workspaceName
                             THEN UpsertRequest(acc.requests, bucket, p) ELSE @,
                !.grants = UpsertGrant(acc.grants, bucket, granteePrincipal, p)]

\* views.py 790-863: one op of the loop; err stops the call before any patch
ApplyPatchOp(acc, p, workspaceName, st) ==
    LET bucket == Strip(p.bucket)
        known == p.workspace \in Workspaces /\ st[p.workspace].present
        granteePrincipal == Strip(OrEmpty(st[p.workspace].principal))
    IN IF acc.err # "" THEN acc
       ELSE IF bucket = "" THEN acc
       ELSE IF p.workspace = workspaceName
       THEN [acc EXCEPT !.requests = UpsertRequest(acc.requests, bucket, p)]
       ELSE IF ~known THEN [acc EXCEPT !.err = "invalid_workspace"]
       ELSE IF granteePrincipal = "" THEN [acc EXCEPT !.err = "missing_principal"]
       ELSE [acc EXCEPT !.grants = UpsertGrant(acc.grants, bucket, granteePrincipal, p)]

RECURSIVE PatchLoop(_, _, _, _)
PatchLoop(acc, ops, workspaceName, st) ==
    IF ops = <<>> THEN acc
    ELSE PatchLoop(ApplyPatchOp(acc, Head(ops), workspaceName, st), Tail(ops),
                   workspaceName, st)

\* the body of the merge patch update_workspace sends, built from the spec it read
StoragePatch(spec, update, workspaceName, st) ==
    LET lists == PatchLoop([err |-> "", requests |-> spec.requests, grants |-> spec.grants],
                           update.patch_bucket_access_requests, workspaceName, st)
    IN [err |-> lists.err,
        buckets |-> AddBuckets(spec.buckets, update.add_buckets),
        requests |-> lists.requests,
        grants |-> lists.grants]

\* application/merge-patch+json on the record: the three lists are replaced
MergePatch(record, patch) ==
    [record EXCEPT !.buckets = patch.buckets, !.requests = patch.requests,
                   !.grants = patch.grants]

(***************************************************************************)
(* The inputs the model draws.                                             *)
(***************************************************************************)
\* default_owner values, already slugs
Owners == {"pa", "pb"}

\* preferred_name values, already slugs
PreferredNames == {"a", "b"}

\* workspace names a caller may put in a path or in an op
PathNames == Workspaces \cup {"ws-zz", "other"}
OpWorkspaces == Workspaces \cup {"ws-zz"}

\* bucket names a caller may name in an op or in add_buckets
OpBuckets == {"ws-a", "b-x"}

OpPermissions == {"ReadOnly", "WriteOnly", "None"}

OptTimestamps == {NoTime} \cup Timestamps

\* the ops a caller sends: every workspace, bucket and permission; a grant is
\* dated as the request is, a denial (which may come with a grant) the mirrored day
PatchOps ==
    {PatchOp(w, b, perm, rt, gt, dt) :
        w \in OpWorkspaces, b \in OpBuckets, perm \in OpPermissions,
        rt \in Timestamps, gt \in OptTimestamps, dt \in OptTimestamps}

SingleOps ==
    {p \in PatchOps : /\ p.grant_timestamp \in {NoTime, p.request_timestamp}
                      /\ p.denied_timestamp \in {NoTime, MaxT + 1 - p.request_timestamp}}

\* the ops of the two-op batches: requests and ReadOnly grants
BatchOps ==
    {p \in SingleOps : p.permission = "ReadOnly" /\ p.denied_timestamp = NoTime}

WorkspaceEdit(addBuckets, ops) ==
    [add_buckets |-> addBuckets, patch_bucket_access_requests |-> ops]

AddBucketLists ==
    {<<>>} \cup {<<b>> : b \in OpBuckets} \cup {<<b, c>> : b \in OpBuckets, c \in OpBuckets}

\* the edits of calls that overlap with another update_workspace call
RaceEdits ==
    {WorkspaceEdit(<<"b-x">>, <<>>)} \cup {WorkspaceEdit(<<>>, <<p>>) : p \in BatchOps}

WorkspaceEdits ==
    {WorkspaceEdit(a, <<>>) : a \in AddBucketLists}
        \cup {WorkspaceEdit(<<>>, <<p>>) : p \in SingleOps}
        \cup {WorkspaceEdit(<<"b-x">>, <<p>>) : p \in {q \in BatchOps : q.bucket = "b-x"}}
        \cup {WorkspaceEdit(<<>>, <<p, q>>) :
                p \in {r \in BatchOps : r.bucket = "ws-a"},
                q \in {r \in BatchOps : r.bucket = "ws-a" /\ r.request_timestamp = MaxT}}

(***************************************************************************)
(* The API calls.  A call of update_workspace or create_workspace reads    *)
(* the cluster and writes it later; other calls may come in between.       *)
(***************************************************************************)
Procs == 1..MaxProcs

Idle ==
    [pc |-> "idle", ws |-> "", update |-> WorkspaceEdit(<<>>, <<>>), spec |-> NoRecord,
     owner |-> ""]

\* processes are interchangeable: a new call takes the first idle one
FreeProc(p) == calls[p].pc = "idle" /\ \A q \in 1..(p - 1) : calls[q].pc # "idle"

Exists(st, name) == name \in Workspaces /\ st[name].present

NoneInFlight == \A q \in Procs : calls[q].pc = "idle"

\* The model follows a view no further: whatever may happen after get_workspace
\* answered may happen from the state it was taken in, which differs in resp only.
NotAfterView == resp.op # "get_workspace"

\* overlapping update_workspace calls carry edits of RaceEdits
MayOverlap(update) ==
    \/ \A q \in Procs : calls[q].pc # "update"
    \/ /\ update \in RaceEdits
       /\ \A q \in Procs : calls[q].pc = "update" => calls[q].update \in RaceEdits

\* create_workspace 642-646: the Storage a new workspace gets
NewStorage(workspaceName, owner) ==
    [present |-> TRUE, principal |-> owner,
     buckets |-> <<Bucket(workspaceName, TRUE)>>, requests |-> <<>>, grants |-> <<>>]

\* create_workspace without the look for a Storage of the name
CreateCheckUnchecked(p, preferred, owner) ==
    LET workspaceName == WithPrefix(preferred)
    IN /\ nCalls < MaxCalls
       /\ NotAfterView
       /\ FreeProc(p)
       /\ nCalls' = nCalls + 1
       /\ calls' = [calls EXCEPT ![p] =
                       [Idle EXCEPT !.pc = "create", !.ws = workspaceName, !.owner = owner]]
       /\ resp' = NoResponse
       /\ UNCHANGED <<store, lab>>

\* create_workspace 619-634: the name is taken when a Storage of that name exists
CreateCheck(p, preferred, owner) ==
    LET workspaceName == WithPrefix(preferred)
    IN /\ nCalls < MaxCalls
       /\ NotAfterView
       /\ FreeProc(p)
       /\ nCalls' = nCalls + 1
       /\ IF Exists(store, workspaceName)
          THEN /\ resp' = Response("create_workspace", workspaceName, 422, "exists")
               /\ UNCHANGED calls
          ELSE /\ calls' = [calls EXCEPT ![p] =
                               [Idle EXCEPT !.pc = "create", !.ws = workspaceName,
                                            !.owner = owner]]
               /\ resp' = NoResponse
       /\ UNCHANGED <<store, lab>>

\* create_workspace 636-685: the cluster refuses a second Storage of the name;
\* the Datalab is created after the Storage, when the Datalab CRD is served
CreateStorage(p) ==
    LET c == calls[p]
    IN /\ c.pc = "create"
       /\ calls' = [calls EXCEPT ![p] = Idle]
       /\ IF Exists(store, c.ws)
          THEN /\ resp' = Response("create_workspace", c.ws, 502, "create_failed")
               /\ UNCHANGED <<store, lab>>
          ELSE /\ store' = [store EXCEPT ![c.ws] = NewStorage(c.ws, c.owner)]
               /\ IF ~lab.datalabCrd
                  THEN /\ resp' = Response("create_workspace", c.ws, 201, "")
                       /\ UNCHANGED lab
                  ELSE IF lab.datalabs[c.ws].present
                  THEN /\ resp' = Response("create_workspace", c.ws, 502,
                                           "datalab_create_failed")
                       /\ UNCHANGED lab
                  ELSE /\ lab' = [lab EXCEPT !.datalabs[c.ws] =
                                                NewDatalab(c.owner, lab.sessionMode)]
                       /\ resp' = Response("create_workspace", c.ws, 201, "")
       /\ UNCHANGED nCalls

\* update_workspace 765-774: read the Storage to patch
UpdateRead(p, workspaceName, update) ==
    /\ nCalls < MaxCalls
    /\ NotAfterView
    /\ FreeProc(p)
    /\ MayOverlap(update)
    /\ nCalls' = nCalls + 1
    /\ IF ~Exists(store, workspaceName)
       THEN /\ resp' = Response("update_workspace", workspaceName, 404, "not_found")
            /\ UNCHANGED calls
       ELSE /\ calls' = [calls EXCEPT ![p] =
                            [Idle EXCEPT !.pc = "update", !.ws = workspaceName,
                                         !.update = update,
                                         !.spec = store[workspaceName]]]
            /\ resp' = NoResponse
    /\ UNCHANGED <<store, lab>>

\* the patch sent to every Storage of the namespace instead of the named one
UpdatePatchEveryRecord(p) ==
    LET c == calls[p]
        patch == StoragePatch(c.spec, c.update, c.ws, store)
    IN /\ c.pc = "update"
       /\ calls' = [calls EXCEPT ![p] = Idle]
       /\ IF \E i \in 1..Len(c.spec.buckets) : ~c.spec.buckets[i].isDict
          THEN /\ resp' = Response("update_workspace", c.ws, 500, "AttributeError")
               /\ UNCHANGED store
          ELSE IF patch.err # ""
          THEN /\ resp' = Response("update_workspace", c.ws, 400, patch.err)
               /\ UNCHANGED store
          ELSE IF ~Exists(store, c.ws)
          THEN /\ resp' = Response("update_workspace", c.ws, 500, "ApiException")
               /\ UNCHANGED store
          ELSE /\ store' = [w \in Workspaces |->
                               IF store[w].present THEN MergePatch(store[w], patch)
                               ELSE store[w]]
               /\ resp' = Response("update_workspace", c.ws, 202, "")
       /\ UNCHANGED <<nCalls, lab>>

\* the lists built from the record as it is when the patch is sent
UpdatePatchReread(p) ==
    LET c == calls[p]
        patch == StoragePatch(store[c.ws], c.update, c.ws, store)
    IN /\ c.pc = "update"
       /\ calls' = [calls EXCEPT ![p] = Idle]
       /\ IF \E i \in 1..Len(c.spec.buckets) : ~c.spec.buckets[i].isDict
          THEN /\ resp' = Response("update_workspace", c.ws, 500, "AttributeError")
               /\ UNCHANGED store
          ELSE IF ~Exists(store, c.ws)
          THEN /\ resp' = Response("update_workspace", c.ws, 500, "ApiException")
               /\ UNCHANGED store
          ELSE IF patch.err # ""
          THEN /\ resp' = Response("update_workspace", c.ws, 400, patch.err)
               /\ UNCHANGED store
          ELSE /\ store' = [store EXCEPT ![c.ws] = MergePatch(@, patch)]
               /\ resp' = Response("update_workspace", c.ws, 202, "")
       /\ UNCHANGED <<nCalls, lab>>

\* update_workspace 776-885: build the lists, resolve the grantees, send the patch
UpdatePatch(p) ==
    LET c == calls[p]
        patch == StoragePatch(c.spec, c.update, c.ws, store)
    IN /\ c.pc = "update"
       /\ calls' = [calls EXCEPT ![p] = Idle]
       /\ IF \E i \in 1..Len(c.spec.buckets) : ~c.spec.buckets[i].isDict
          THEN /\ resp' = Response("update_workspace", c.ws, 500, "AttributeError")
               /\ UNCHANGED store
          ELSE IF patch.err # ""
          THEN /\ resp' = Response("update_workspace", c.ws, 400, patch.err)
               /\ UNCHANGED store
          ELSE IF ~Exists(store, c.ws)
          THEN /\ resp' = Response("update_workspace", c.ws, 500, "ApiException")
               /\ UNCHANGED store
          ELSE /\ store' = [store EXCEPT ![c.ws] = MergePatch(@, patch)]
               /\ resp' = Response("update_workspace", c.ws, 202, "")
       /\ UNCHANGED <<nCalls, lab>>

\* delete_workspace with no pattern on the path parameter
DeleteWorkspaceAnyName(workspaceName) ==
    /\ nCalls < MaxCalls
    /\ NotAfterView
    /\ nCalls' = nCalls + 1
    /\ IF ~Exists(store, workspaceName)
       THEN /\ resp' = Response("delete_workspace", workspaceName, 404, "not_found")
            /\ UNCHANGED <<store, lab>>
       ELSE /\ store' = [store EXCEPT ![workspaceName] = NoRecord]
            /\ lab' = IF lab.datalabCrd
                      THEN [lab EXCEPT !.datalabs[workspaceName] = NoDatalab] ELSE lab
            /\ resp' = Response("delete_workspace", workspaceName, 204, "")
    /\ UNCHANGED calls

\* delete_workspace 981-999: the Storage, then the Datalab if one is there
DeleteWorkspace(workspaceName) ==
    /\ nCalls < MaxCalls
    /\ NotAfterView
    /\ nCalls' = nCalls + 1
    /\ IF ~MatchesNamePattern(workspaceName)
       THEN /\ resp' = Response("delete_workspace", workspaceName, 422, "pattern")
            /\ UNCHANGED <<store, lab>>
       ELSE IF ~Exists(store, workspaceName)
       THEN /\ resp' = Response("delete_workspace", workspaceName, 404, "not_found")
            /\ UNCHANGED <<store, lab>>
       ELSE /\ store' = [store EXCEPT ![workspaceName] = NoRecord]
            /\ lab' = IF lab.datalabCrd
                      THEN [lab EXCEPT !.datalabs[workspaceName] = NoDatalab] ELSE lab
            /\ resp' = Response("delete_workspace", workspaceName, 204, "")
    /\ UNCHANGED calls

POLL_INTERVAL_SECONDS == 10

\* list(dict.fromkeys(items)): the first occurrence of every item, in order
RECURSIVE FromKeys(_)
FromKeys(items) ==
    IF items = <<>> THEN <<>>
    ELSE LET init == FromKeys(SubSeq(items, 1, Len(items) - 1))
             it == items[Len(items)]
         IN IF it \in SeqRange(init) THEN init ELSE Append(init, it)

\* an answer of get_workspace_session, with the session it was asked for
SessionResponse(workspaceName, sessionId, status, error) ==
    [Response("get_workspace_session", workspaceName, status, error) EXCEPT
        !.session = sessionId]

\* get_workspace_session 1066-1134: the answer for a session the spec declares,
\* or has just been patched to declare, from the status read with the record
SessionAnswer(workspaceName, dl, sessionId, html) ==
    LET url == dl.urls[sessionId]
    IN IF html
       THEN [SessionResponse(workspaceName, sessionId, 200, "") EXCEPT !.html = TRUE]
       ELSE IF url # ""
       THEN [SessionResponse(workspaceName, sessionId, 200, "") EXCEPT !.url = url]
       ELSE [SessionResponse(workspaceName, sessionId, 202, "") EXCEPT
                !.retryAfter = POLL_INTERVAL_SECONDS]

\* a session is enabled on demand whatever SESSION_MODE is
AutoEnableAnyMode(sessionMode, sessionId) == sessionId = "default"

\* get_workspace_session 1039-1040: the session that is enabled on demand
AutoEnable(sessionMode, sessionId) == sessionMode = "auto" /\ sessionId = "default"

\* get_workspace_session 1019-1134; html is whether the request accepts
\* text/html, patchFails the outcome of the patch when one is sent
GetWorkspaceSession(workspaceName, sessionId, html, patchFails) ==
    LET dl == IF workspaceName \in Workspaces THEN lab.datalabs[workspaceName]
              ELSE NoDatalab
        specSessions == dl.sessions
        newSessions == FromKeys(Append(specSessions, "default"))
    IN /\ nCalls < MaxCalls
       /\ NotAfterView
       /\ nCalls' = nCalls + 1
       /\ IF ~MatchesNamePattern(workspaceName)
          THEN /\ resp' = SessionResponse(workspaceName, sessionId, 422, "pattern")
               /\ UNCHANGED lab
          ELSE IF ~lab.datalabCrd
          THEN /\ resp' = SessionResponse(workspaceName, sessionId, 404, "crd_not_found")
               /\ UNCHANGED lab
          ELSE IF ~dl.present
          THEN /\ resp' = SessionResponse(workspaceName, sessionId, 404,
                                          "workspace_not_found")
               /\ UNCHANGED lab
          ELSE IF sessionId \in SeqRange(specSessions)
          THEN /\ resp' = SessionAnswer(workspaceName, dl, sessionId, html)
               /\ UNCHANGED lab
          ELSE IF AutoEnable(lab.sessionMode, sessionId)
          THEN IF patchFails
               THEN /\ resp' = SessionResponse(workspaceName, sessionId, 502,
                                               "enable_failed")
                    /\ UNCHANGED lab
               ELSE /\ lab' = [lab EXCEPT !.datalabs[workspaceName].sessions = newSessions]
                    /\ resp' = SessionAnswer(workspaceName, dl, sessionId, html)
          ELSE /\ resp' = SessionResponse(workspaceName, sessionId, 404, "not_declared")
               /\ UNCHANGED lab
       /\ UNCHANGED <<store, calls>>

\* get_workspace 720-746: the view of one workspace; listFails is the outcome of
\* listing the Storage records during the derivation.  A view taken while a call
\* is in flight is the view of the same records taken before that call began.
GetWorkspace(workspaceName, listFails) ==
    /\ NoneInFlight
    /\ NotAfterView
    /\ resp' = IF ~MatchesNamePattern(workspaceName)
               THEN Response("get_workspace", workspaceName, 422, "pattern")
               ELSE CombineWorkspace(store, workspaceName, listFails, lab)
    /\ UNCHANGED <<store, calls, nCalls, lab>>

(***************************************************************************)
(* The cluster as the API finds it: every workspace is absent or as        *)
(* create_workspace made it.  Principals are opaque, so the owner of the   *)
(* first workspace is fixed.                                               *)
(***************************************************************************)
\* the configuration the model runs the API with unless a specification draws
\* another: the Datalab CRD is served, SESSION_MODE has its default "on", and
\* every workspace create_workspace made has the Datalab it got then; no storage
\* credentials secret exists yet
CreatedLab(st) ==
    [datalabCrd |-> TRUE, sessionMode |-> "on", storageSecretName |-> TRUE,
     datalabs |-> [w \in Workspaces |->
                      IF st[w].present THEN NewDatalab(st[w].principal, "on") ELSE NoDatalab],
     secrets |-> [o \in Owners |-> "absent"]]

CreatedStores ==
    {st \in [Workspaces -> {NoRecord} \cup {NewStorage(w, o) : w \in Workspaces, o \in Owners}] :
        /\ \A w \in Workspaces : st[w].present => st[w].buckets[1].bucketName = w
        /\ st["ws-a"].present => st["ws-a"].principal = "pa"}

Init ==
    /\ store \in CreatedStores
    /\ calls = [p \in Procs |-> Idle]
    /\ resp = NoResponse
    /\ nCalls = 0
    /\ lab = CreatedLab(store)

Next ==
    \/ \E p \in Procs, n \in PreferredNames, o \in Owners : CreateCheck(p, n, o)
    \/ \E p \in Procs : CreateStorage(p)
    \/ \E p \in Procs, w \in OpWorkspaces, u \in WorkspaceEdits :
            UpdateRead(p, w, [u EXCEPT !.patch_bucket_access_requests =
                                          RequireMinFieldsAndDedup(@)])
    \/ \E p \in Procs : UpdatePatch(p)
    \/ \E w \in PathNames : DeleteWorkspace(w)
    \/ \E w \in PathNames, f \in BOOLEAN : GetWorkspace(w, f)

Spec == Init /\ [][Next]_vars

(***************************************************************************)
(* The cluster as others may have written it: Storage records are plain    *)
(* custom resources, so a list may hold entries update_workspace would     *)
(* never write.  SpecExt derives the views of such records.                *)
(***************************************************************************)
NotADict == [isDict |-> FALSE, bucketName |-> NONE, reason |-> NONE, requestedAt |-> NONE]

ExternalRequests ==
    {RawRequest("ws-a", "ReadOnly please", "2024-01-01T00:00:00Z"),
     RawRequest(" b-x ", "write-only", "2024-01-02T00:00:00"),
     NotADict,
     RawRequest("B_x", "requesting access", "2024-01-01T00:00:00+00:00"),
     RawRequest("ws-a", "writeonly, not readonly", "yesterday"),
     RawRequest("ws-a", "need read only access", ABSENT),
     RawRequest("b-x", "writeonly, not readonly", "2024-01-02T00:00:00+00:00")}

ExternalGrants ==
    {RawGrant("ws-a", "pb", "read-only", "2024-01-02T00:00:00+00:00"),
     RawGrant("ws-a", "pb", "Admin", "2024-01-02T00:00:00+00:00"),
     RawGrant("ws-a", "pb", ABSENT, "2024-01-01T00:00:00Z"),
     RawGrant("ws-a", "pb", "ReadOnly", ABSENT),
     RawGrant("ws-a", "pb", "ReadOnly", "yesterday"),
     [RawGrant("ws-a", "pb", "WriteOnly", "2024-01-02T00:00:00+00:00")
        EXCEPT !.requestedAt = "2024-01-01T00:00:00+00:00"],
     [RawGrant("ws-a", "pb", "ReadOnly", "2024-01-02T00:00:00+00:00")
        EXCEPT !.isDict = FALSE]}

ExternalBuckets ==
    {Bucket("b-x", FALSE), Bucket(" b-x ", TRUE), Bucket("B_x", TRUE),
     [Bucket("b-x", TRUE) EXCEPT !.isDict = FALSE]}

UpTo2(S) == {<<>>} \cup {<<x>> : x \in S} \cup {<<x, y>> : x \in S, y \in S}

UpTo1(S) == {<<>>} \cup {<<x>> : x \in S}

\* ws-a holds the buckets and the grants, ws-b the requests
ExternalStores ==
    {[w \in Workspaces |->
        IF w = "ws-a"
        THEN [NewStorage("ws-a", pa) EXCEPT !.buckets = @ \o bs, !.grants = gs]
        ELSE [NewStorage("ws-b", pb) EXCEPT !.requests = rs]] :
        pa \in {"pa", ""}, pb \in {"pb", "pa", ""},
        bs \in UpTo1(ExternalBuckets), gs \in UpTo1(ExternalGrants),
        rs \in UpTo2(ExternalRequests)}

InitExt ==
    /\ store \in ExternalStores
    /\ calls = [p \in Procs |-> Idle]
    /\ resp = NoResponse
    /\ nCalls = 0
    /\ lab = CreatedLab(store)

NextExt == \E w \in PathNames, f \in BOOLEAN : GetWorkspace(w, f)

SpecExt == InitExt /\ [][NextExt]_vars

(***************************************************************************)
(* update_workspace on records that may lack a principal: a Storage made   *)
(* by other means than create_workspace need not name one.                 *)
(***************************************************************************)
UpdateStores ==
    {[w \in Workspaces |->
        IF w = "ws-a" THEN NewStorage("ws-a", "pa")
        ELSE IF present THEN NewStorage("ws-b", pb) ELSE NoRecord] :
        present \in BOOLEAN, pb \in {"pb", "pa", ""}}

InitUpd ==
    /\ store \in UpdateStores
    /\ calls = [p \in Procs |-> Idle]
    /\ resp = NoResponse
    /\ nCalls = 0
    /\ lab = CreatedLab(store)

NextUpd ==
    \/ \E p \in Procs, w \in OpWorkspaces, u \in WorkspaceEdits :
            UpdateRead(p, w, [u EXCEPT !.patch_bucket_access_requests =
                                          RequireMinFieldsAndDedup(@)])
    \/ \E p \in Procs : UpdatePatch(p)

SpecUpd == InitUpd /\ [][NextUpd]_vars

(***************************************************************************)
(* Workspaces with their Datalabs and secrets: the Datalab CRD may not be  *)
(* served, SESSION_MODE is "on", "auto" or "off", a Datalab declares the   *)
(* sessions and reports the URLs an operator or an earlier call left, and  *)
(* the secret of a principal is in any of its states.  SpecLab creates,    *)
(* deletes and views workspaces and asks for their sessions.               *)
(***************************************************************************)
SessionModes == {"on", "auto", "off"}

\* the URL a Datalab reports for a session that runs
UrlOf(id) == IF id = "default" THEN "https://lab/default" ELSE "https://lab/s1"

Datalab(sessions, running) ==
    [present |-> TRUE, users |-> <<"pa">>, sessions |-> sessions,
     urls |-> [id \in SessionIds |-> IF id \in running THEN UrlOf(id) ELSE ""]]

ExternalDatalabs ==
    {NoDatalab,
     Datalab(<<>>, {}), Datalab(<<>>, {"default"}),
     Datalab(<<"default">>, {}), Datalab(<<"default">>, {"default"}),
     Datalab(<<"s1">>, {"s1"}), Datalab(<<"s1", "s1">>, {})}

\* without the CRD no Datalab exists and SESSION_MODE is never read; without a
\* secret name no secret is
Labs ==
    {[datalabCrd |-> crd, sessionMode |-> mode, storageSecretName |-> named,
      datalabs |-> [w \in Workspaces |-> IF w = "ws-a" THEN a ELSE b],
      secrets |-> [o \in Owners |-> IF o = "pa" THEN sa ELSE "keys"]] :
        crd \in BOOLEAN, mode \in SessionModes, named \in BOOLEAN,
        a \in ExternalDatalabs, b \in {NoDatalab, NewDatalab("pb", "on")},
        sa \in SecretStates}

LabStores == {st \in CreatedStores : ~st["ws-b"].present}

InitLab ==
    /\ store \in LabStores
    /\ lab \in {l \in Labs :
                   /\ ~l.datalabCrd =>
                         /\ l.sessionMode = "on"
                         /\ \A w \in Workspaces : l.datalabs[w] = NoDatalab
                   /\ ~l.storageSecretName => l.secrets["pa"] = "absent"}
    /\ calls = [p \in Procs |-> Idle]
    /\ resp = NoResponse
    /\ nCalls = 0

NextLab ==
    \/ \E p \in Procs, n \in PreferredNames, o \in Owners : CreateCheck(p, n, o)
    \/ \E p \in Procs : CreateStorage(p)
    \/ \E w \in PathNames : DeleteWorkspace(w)
    \/ \E w \in PathNames, f \in BOOLEAN : GetWorkspace(w, f)
    \/ \E w \in PathNames, id \in SessionIds, html \in BOOLEAN, patchFails \in BOOLEAN :
            GetWorkspaceSession(w, id, html, patchFails)

SpecLab == InitLab /\ [][NextLab]_vars

(***************************************************************************)
(* Reading a state: the view get_workspace answered with, the records its  *)
(* derivation listed, and a call of update_workspace sending its patch.    *)
(***************************************************************************)
IsView == resp.op = "get_workspace" /\ resp.status = 200

Listed == ListedItems(store, resp.listFailed)

ViewPrincipal ==
    IF Truthy(store[resp.ws].principal) THEN store[resp.ws].principal ELSE resp.ws

ViewDiscoverable == SeqRange(BucketNames(store[resp.ws].buckets, TRUE))

NameOf(x) == Strip(OrEmpty(Get(x.bucketName)))

ListedDiscoverable ==
    {NameOf(tb.x) : tb \in {t \in SeqRange(Tagged(Listed, "buckets")) :
                               t.x.isDict /\ AsBool(t.x.discoverable)}} \ {""}

StoredRequests == SeqRange(Tagged(Listed, "requests"))

\* a stored request the target is shown: its record has a principal, it is a dict
\* with a bucket and a requestedAt, and it is the target's own or for its bucket
Relevant(tr) ==
    /\ tr.principal # "" /\ tr.x.isDict /\ NameOf(tr.x) # ""
    /\ Truthy(Get(tr.x.requestedAt))
    /\ tr.principal = ViewPrincipal \/ NameOf(tr.x) \in ViewDiscoverable

ExplicitFor(b) == \E tr \in StoredRequests : Relevant(tr) /\ NameOf(tr.x) = b

StoredGrants == Tagged(Listed, "grants")

GranteeOf(g) == Strip(OrEmpty(Get(g.grantee)))

\* the stored grant tg is applied to entry i of the view
Matches(tg, i) ==
    /\ tg.x.isDict /\ GranteeOf(tg.x) # "" /\ NameOf(tg.x) # ""
    /\ Truthy(Get(tg.x.grantedAt))
    /\ resp.requests[i].bucket = NameOf(tg.x)
    /\ resp.requests[i].principal = GranteeOf(tg.x)
    /\ \A j \in 1..(i - 1) : ~(/\ resp.requests[j].bucket = NameOf(tg.x)
                               /\ resp.requests[j].principal = GranteeOf(tg.x))

GrantsMatching(i) == SelectSeq(StoredGrants, LAMBDA tg : Matches(tg, i))

\* what one grant makes of an entry's grant and denial timestamps
DecidedBy(g, e) ==
    LET at == ParseIsoDt(g.grantedAt).t
    IN IF PermFromStr(Get(g.permission)) = "None"
       THEN e.denied_timestamp = at /\ e.grant_timestamp = NoTime
       ELSE e.grant_timestamp = at /\ e.denied_timestamp = NoTime

\* call p sends its patch and the cluster takes it
PatchStep(p) == calls[p].pc = "update" /\ calls'[p].pc = "idle" /\ resp'.status = 202

\* nothing was written to the record since call p read it
Fresh(p) == calls[p].pc = "update" /\ calls[p].spec = store[calls[p].ws]

RequestsFor(record, b) ==
    {i \in 1..Len(record.requests) :
        record.requests[i].isDict /\ NameOf(record.requests[i]) = b}

GrantsFor(record, b, grantee) ==
    {i \in 1..Len(record.grants) :
        /\ record.grants[i].isDict /\ NameOf(record.grants[i]) = b
        /\ GranteeOf(record.grants[i]) = grantee}

\* the ops of call p that claim bucket b for the patched workspace itself
ClaimOps(p, b) ==
    LET ops == calls[p].update.patch_bucket_access_requests
    IN {k \in 1..Len(ops) : ops[k].workspace = calls[p].ws /\ Strip(ops[k].bucket) = b}

\* the ops of call p that decide on bucket b for workspace g
DecisionOps(p, b, g) ==
    LET ops == calls[p].update.patch_bucket_access_requests
    IN {k \in 1..Len(ops) : /\ ops[k].workspace = g /\ g # calls[p].ws
                            /\ Strip(ops[k].bucket) = b /\ Decision(ops[k]).any}

C2_RequestTimestampKept ==
    IsView =>
        \A i \in 1..Len(resp.requests) :
            \A tr \in StoredRequests :
                (/\ Relevant(tr)
                 /\ tr.ws = resp.requests[i].workspace
                 /\ NameOf(tr.x) = resp.requests[i].bucket
                 /\ GrantsMatching(i) # <<>>
                 /\ \A k \in 1..Len(GrantsMatching(i)) :
                       ~Truthy(Get(GrantsMatching(i)[k].x.requestedAt)))
                => resp.requests[i].request_timestamp = ParseIsoDt(tr.x.requestedAt).t

(***************************************************************************)
(* C3  Claim idempotence.                                                  *)
(***************************************************************************)
\* C3: a patch with an op that claims bucket b for the patched workspace leaves
\* exactly one stored request for b; its requestedAt is the one stored before, or,
\* when none was stored, the request_timestamp of the first such op.
C3_ClaimIdempotence ==
    [][\A p \in Procs, b \in OpBuckets :
          LET c == calls[p]
              ops == c.update.patch_bucket_access_requests
              own == ClaimOps(p, b)
              first == CHOOSE k \in own : \A j \in own : k <= j
              before == RequestsFor(store[c.ws], b)
              after == RequestsFor(store'[c.ws], b)
          IN (PatchStep(p) /\ Fresh(p) /\ own # {} /\ Cardinality(before) <= 1) =>
                /\ Cardinality(after) = 1
                /\ \A i \in after :
                      store'[c.ws].requests[i].requestedAt =
                          IF before = {} THEN Iso(ops[first].request_timestamp)
                          ELSE store[c.ws].requests[CHOOSE j \in before : TRUE].requestedAt
      ]_vars

\* a second claim of one bucket, dated otherwise than the stored one, is about to
\* be patched in
C3_Witness ==
    \E p \in Procs, b \in OpBuckets :
        /\ Fresh(p)
        /\ StoragePatch(calls[p].spec, calls[p].update, calls[p].ws, store).err = ""
        /\ \E k \in ClaimOps(p, b), i \in RequestsFor(store[calls[p].ws], b) :
              store[calls[p].ws].requests[i].requestedAt #
                  Iso(calls[p].update.patch_bucket_access_requests[k].request_timestamp)

(***************************************************************************)
(* C4  Grant overwrite.                                                    *)
(***************************************************************************)
\* C4: a patch with ops that decide on bucket b for a workspace of principal g
\* leaves exactly one stored grant for (b, g), with the permission and the time of
\* the last such op.
C4_GrantOverwrite ==
    [][\A p \in Procs, b \in OpBuckets, g \in Workspaces :
          LET c == calls[p]
              ops == c.update.patch_bucket_access_requests
              dec == DecisionOps(p, b, g)
              last == CHOOSE k \in dec : \A j \in dec : j <= k
              grantee == Strip(OrEmpty(store[g].principal))
              before == GrantsFor(store[c.ws], b, grantee)
              after == GrantsFor(store'[c.ws], b, grantee)
          IN (PatchStep(p) /\ Fresh(p) /\ dec # {} /\ Cardinality(before) <= 1) =>
                /\ Cardinality(after) = 1
                /\ \A i \in after :
                      /\ store'[c.ws].grants[i].permission = Decision(ops[last]).permission
                      /\ store'[c.ws].grants[i].grantedAt = Decision(ops[last]).grantedAt
      ]_vars

\* a second decision for one (bucket, grantee), other than the stored one, is
\* about to be patched in
C4_Witness ==
    \E p \in Procs, b \in OpBuckets, g \in Workspaces :
        /\ Fresh(p)
        /\ StoragePatch(calls[p].spec, calls[p].update, calls[p].ws, store).err = ""
        /\ \E k \in DecisionOps(p, b, g),
              i \in GrantsFor(store[calls[p].ws], b, Strip(OrEmpty(store[g].principal))) :
              LET d == Decision(calls[p].update.patch_bucket_access_requests[k])
                  gr == store[calls[p].ws].grants[i]
              IN gr.permission # d.permission /\ gr.grantedAt # d.grantedAt

(***************************************************************************)
(* C5  Denial exclusivity.                                                 *)
(***************************************************************************)
\* C5, as the specification states it: no entry of a view has both a grant and a
\* denial timestamp, and every grant applied to an entry decides it: permission
\* None sets denied_timestamp and clears grant_timestamp, any other permission
\* sets grant_timestamp and clears denied_timestamp.
C5_EveryMatchingGrantDecides ==
    IsView =>
        \A i \in 1..Len(resp.requests) :
            /\ ~(/\ resp.requests[i].grant_timestamp # NoTime
                 /\ resp.requests[i].denied_timestamp # NoTime)
            /\ \A k \in 1..Len(StoredGrants) :
                  Matches(StoredGrants[k], i) =>
                      DecidedBy(StoredGrants[k].x, resp.requests[i])

\* C5, as the code has it: no entry of a view has both a grant and a denial
\* timestamp; an entry no grant is applied to has neither, and otherwise the last
\* grant applied to it, in the order of the listing, decides it.
C5_LastMatchingGrantDecides ==
    IsView =>
        \A i \in 1..Len(resp.requests) :
            LET e == resp.requests[i]
                gs == GrantsMatching(i)
            IN /\ ~(e.grant_timestamp # NoTime /\ e.denied_timestamp # NoTime)
               /\ IF gs = <<>>
                  THEN e.grant_timestamp = NoTime /\ e.denied_timestamp = NoTime
                  ELSE DecidedBy(gs[Len(gs)].x, e)

\* a denied entry that an earlier grant of the listing had granted
C5_Witness ==
    /\ IsView
    /\ \E i \in 1..Len(resp.requests) :
          LET gs == GrantsMatching(i)
          IN /\ Len(gs) >= 2
             /\ PermFromStr(Get(gs[1].x.permission)) # "None"
             /\ PermFromStr(Get(gs[Len(gs)].x.permission)) = "None"
             /\ resp.requests[i].denied_timestamp # NoTime

(***************************************************************************)
(* C6  No deletion.                                                        *)
(***************************************************************************)
\* C6: no step removes a stored request or a stored grant from a Storage record
\* that stays: the buckets requested and the (bucket, grantee) pairs granted only
\* grow, whatever calls of update_workspace interleave.
C6_NeverDeleted ==
    [][\A w \in Workspaces :
          (store[w].present /\ store'[w].present) =>
              /\ {NameOf(store[w].requests[i]) : i \in 1..Len(store[w].requests)}
                    \subseteq
                 {NameOf(store'[w].requests[i]) : i \in 1..Len(store'[w].requests)}
              /\ {<<NameOf(store[w].grants[i]), GranteeOf(store[w].grants[i])>> :
                    i \in 1..Len(store[w].grants)}
                    \subseteq
                 {<<NameOf(store'[w].grants[i]), GranteeOf(store'[w].grants[i])>> :
                    i \in 1..Len(store'[w].grants)}
      ]_vars

(***************************************************************************)
(* C7  Adding buckets.                                                     *)
(***************************************************************************)
\* C7: a patch leaves the record with the bucket names it had and the names of
\* add_buckets, each name once: adding a name the record has changes nothing, and
\* no record lists two buckets of one name.
C7_AddBucketsSetUnion ==
    [][\A p \in Procs :
          LET c == calls[p]
              before == BucketNames(store[c.ws].buckets, FALSE)
              after == BucketNames(store'[c.ws].buckets, FALSE)
          IN (PatchStep(p) /\ Fresh(p)) =>
                /\ SeqRange(after) = SeqRange(before) \cup SeqRange(c.update.add_buckets)
                /\ \A i, j \in 1..Len(after) : after[i] = after[j] => i = j
      ]_vars

(***************************************************************************)
(* C8  At most one entry per (workspace, bucket).                          *)
(***************************************************************************)
\* C8: no view holds two entries with the same workspace and the same bucket.
C8_NoDuplicateEntries ==
    IsView =>
        \A i, j \in 1..Len(resp.requests) :
            (/\ resp.requests[i].workspace = resp.requests[j].workspace
             /\ resp.requests[i].bucket = resp.requests[j].bucket) => i = j

(***************************************************************************)
(* C9  A failed listing.                                                   *)
(***************************************************************************)
\* C9: when listing the Storage records fails during the derivation, get_workspace
\* does not answer 200 with a view.
C9_ListingFailurePropagated ==
    ~(resp.op = "get_workspace" /\ resp.listFailed /\ resp.status = 200)

(***************************************************************************)
(* C10  Partial derivation.                                                *)
(***************************************************************************)
\* C10: the derivation never raises on a stored entry (one that is no dict, that
\* names no valid bucket or that holds an unparsable timestamp), and the view
\* holds an entry for every well-formed stored request the target is shown.
C10_PartialDerivation ==
    resp.op = "get_workspace" =>
        /\ resp.error # "ValidationError: BucketAccessRequest"
        /\ resp.status = 200 =>
              \A tr \in StoredRequests :
                  (/\ Relevant(tr)
                   /\ ValidBucketName(NameOf(tr.x))
                   /\ ParseIsoDt(tr.x.requestedAt).ok)
                  => \E i \in 1..Len(resp.requests) :
                        /\ resp.requests[i].workspace = tr.ws
                        /\ resp.requests[i].bucket = NameOf(tr.x)

(***************************************************************************)
(* C11  Unresolved grantees.                                               *)
(***************************************************************************)
\* the first op of call p whose grantee workspace has no Storage record or no
\* principal, 0 if there is none
FirstUnresolved(p) ==
    LET ops == calls[p].update.patch_bucket_access_requests
        bad == {k \in 1..Len(ops) :
                   /\ Strip(ops[k].bucket) # ""
                   /\ ops[k].workspace # calls[p].ws
                   /\ \/ ~Exists(store, ops[k].workspace)
                      \/ Strip(OrEmpty(store[ops[k].workspace].principal)) = ""}
    IN IF bad = {} THEN 0 ELSE CHOOSE k \in bad : \A j \in bad : k <= j

\* C11: a call with an op that names a grantee workspace with no Storage record
\* is answered 400 invalid_workspace, one whose grantee record has no principal
\* 400 missing_principal, and in both cases no record changes, whatever ops come
\* before it in the batch.
C11_UnresolvedGranteeRejected ==
    [][\A p \in Procs :
          LET ops == calls[p].update.patch_bucket_access_requests
              k == FirstUnresolved(p)
          IN (calls[p].pc = "update" /\ calls'[p].pc = "idle" /\ k # 0) =>
                /\ resp'.status = 400
                /\ resp'.error = IF Exists(store, ops[k].workspace)
                                 THEN "missing_principal" ELSE "invalid_workspace"
                /\ store' = store
      ]_vars

\* a call about to patch whose first op is a valid claim and whose second op
\* names a grantee record without principal
C11_Witness ==
    \E p \in Procs :
        LET ops == calls[p].update.patch_bucket_access_requests
        IN /\ calls[p].pc = "update"
           /\ FirstUnresolved(p) = 2
           /\ ops[1].workspace = calls[p].ws
           /\ Exists(store, ops[2].workspace)

(***************************************************************************)
(* C12  Grants for own buckets.                                            *)
(***************************************************************************)
\* C12: every grant stored on a record names a bucket of that record's own
\* bucket list.
C12_GrantsForOwnBuckets ==
    \A w \in Workspaces :
        store[w].present =>
            \A i \in 1..Len(store[w].grants) :
                NameOf(store[w].grants[i]) \in SeqRange(BucketNames(store[w].buckets, FALSE))

(***************************************************************************)
(* C13  Records without principal.                                         *)
(***************************************************************************)
\* C13: a listed record without principal has no effect on a view: the view is
\* the one derived from the listed records that have a principal.
C13_NoPrincipalSkipped ==
    IsView =>
        resp.requests =
            ExtractFrom(SelectSeq(Listed, LAMBDA it : Strip(OrEmpty(it.spec.principal)) # ""),
                        DedupPreserve(BucketNames(store[resp.ws].buckets, TRUE)),
                        ViewPrincipal, resp.ws).out

(***************************************************************************)
(* C14  Grant backfill.                                                    *)
(***************************************************************************)
\* the stored grants for (bucket, grantee), in the order of the listing
GrantsForKey(bucket, grantee) ==
    SelectSeq(StoredGrants,
              LAMBDA tg : /\ tg.x.isDict /\ Truthy(Get(tg.x.grantedAt))
                          /\ NameOf(tg.x) = bucket /\ NameOf(tg.x) # ""
                          /\ GranteeOf(tg.x) = grantee /\ GranteeOf(tg.x) # "")

\* C14, as the specification states it: the entry of a request stored by
\* workspace W for bucket b, when one grant for (b, principal of W) is stored in
\* some record, has grant_timestamp = grantedAt and no denied_timestamp if the
\* grant's permission is not None, and denied_timestamp = grantedAt and no
\* grant_timestamp once the grant is a denial.
C14_GrantBackfill ==
    IsView =>
        \A i \in 1..Len(resp.requests) :
            LET e == resp.requests[i]
                gs == GrantsForKey(e.bucket, e.principal)
            IN (/\ \E tr \in StoredRequests :
                      Relevant(tr) /\ tr.ws = e.workspace /\ NameOf(tr.x) = e.bucket
                /\ Len(gs) = 1)
               => DecidedBy(gs[1].x, e)

\* C14, as the code has it: that grant decides the first entry of the view for
\* bucket b that is tagged with the principal of W; a later entry for b with the
\* same principal, the request of another workspace of that principal, stays
\* pending.
C14_GrantBackfillFirstEntry ==
    IsView =>
        \A i \in 1..Len(resp.requests) :
            LET e == resp.requests[i]
                gs == GrantsForKey(e.bucket, e.principal)
                earlier == {j \in 1..(i - 1) : /\ resp.requests[j].bucket = e.bucket
                                               /\ resp.requests[j].principal = e.principal}
            IN (/\ \E tr \in StoredRequests :
                      Relevant(tr) /\ tr.ws = e.workspace /\ NameOf(tr.x) = e.bucket
                /\ Len(gs) = 1)
               => IF earlier = {} THEN DecidedBy(gs[1].x, e)
                  ELSE e.grant_timestamp = NoTime /\ e.denied_timestamp = NoTime

\* a view with a request granted ReadOnly and a second request for the bucket, by
\* another workspace of the same principal, left pending
C14_Witness ==
    /\ IsView
    /\ \E i, j \in 1..Len(resp.requests) :
          /\ i < j
          /\ resp.requests[i].bucket = resp.requests[j].bucket
          /\ resp.requests[i].principal = resp.requests[j].principal
          /\ resp.requests[i].workspace # resp.requests[j].workspace
          /\ Len(GrantsForKey(resp.requests[i].bucket, resp.requests[i].principal)) = 1
          /\ resp.requests[i].grant_timestamp # NoTime
          /\ resp.requests[j].request_timestamp # NoTime
          /\ resp.requests[j].grant_timestamp = NoTime

(***************************************************************************)
(* C15  Denial precedence.                                                 *)
(***************************************************************************)
\* C15: when the last op of a patch that decides on (b, g) carries both a
\* denied_timestamp and a grant_timestamp, the stored grant for (b, g) has
\* permission None and grantedAt equal to the denial time, whatever permission
\* and grant time the op carries.
C15_DenialPrecedence ==
    [][\A p \in Procs, b \in OpBuckets, g \in Workspaces :
          LET c == calls[p]
              ops == c.update.patch_bucket_access_requests
              dec == DecisionOps(p, b, g)
              last == CHOOSE k \in dec : \A j \in dec : j <= k
              after == GrantsFor(store'[c.ws], b, Strip(OrEmpty(store[g].principal)))
          IN (/\ PatchStep(p) /\ dec # {}
              /\ ops[last].denied_timestamp # NoTime
              /\ ops[last].grant_timestamp # NoTime) =>
                /\ after # {}
                /\ \A i \in after :
                      /\ store'[c.ws].grants[i].permission = "None"
                      /\ store'[c.ws].grants[i].grantedAt = IsoFormat(ops[last].denied_timestamp)
      ]_vars

\* an op with a ReadOnly or WriteOnly grant and a denial of another day is about
\* to be patched in
C15_Witness ==
    \E p \in Procs, b \in OpBuckets, g \in Workspaces :
        /\ calls[p].pc = "update"
        /\ Exists(store, calls[p].ws)
        /\ StoragePatch(calls[p].spec, calls[p].update, calls[p].ws, store).err = ""
        /\ \E k \in DecisionOps(p, b, g) :
              LET op == calls[p].update.patch_bucket_access_requests[k]
              IN /\ op.permission # "None"
                 /\ op.grant_timestamp # NoTime /\ op.denied_timestamp # NoTime
                 /\ op.grant_timestamp # op.denied_timestamp

(***************************************************************************)
(* C16  update_workspace writes one record.                                *)
(***************************************************************************)
\* C16: a step of an update_workspace call on workspace W leaves the Storage
\* record of every other workspace as it was, the grantee's included, whether
\* the call is answered 202 or refused.
C16_OnlyOwnRecordWritten ==
    [][/\ \A p \in Procs :
             (calls[p].pc = "update" /\ calls'[p].pc = "idle") =>
                 \A w \in Workspaces \ {calls[p].ws} : store'[w] = store[w]
       /\ (\E p \in Procs : calls[p].pc = "idle" /\ calls'[p].pc = "update") =>
             store' = store
       /\ (resp'.op = "update_workspace" /\ resp'.status # 202) => store' = store
      ]_vars

\* a patch was taken that stored a grant to the principal of another workspace,
\* whose record is still as create_workspace made it
C16_Witness ==
    /\ resp.op = "update_workspace" /\ resp.status = 202
    /\ \E w \in Workspaces \ {resp.ws} :
          /\ store[w] = NewStorage(w, store[w].principal)
          /\ \E i \in 1..Len(store[resp.ws].grants) :
                store[resp.ws].grants[i].grantee = store[w].principal

(***************************************************************************)
(* C17  Retrying an update.                                                *)
(***************************************************************************)
\* C17: once a patch of a call is taken, the same request applied again to the
\* record is refused nowhere and builds the lists the record already has: no
\* bucket, request or grant is added and no stored value changes.
C17_RetryChangesNothing ==
    [][\A p \in Procs :
          LET c == calls[p]
              again == StoragePatch(store'[c.ws], c.update, c.ws, store')
          IN (PatchStep(p) /\ Fresh(p)) =>
                /\ again.err = ""
                /\ MergePatch(store'[c.ws], again) = store'[c.ws]
      ]_vars

\* a call about to patch in a new bucket and a grant the record does not have
C17_Witness ==
    \E p \in Procs :
        LET c == calls[p]
            first == StoragePatch(c.spec, c.update, c.ws, store)
        IN /\ Fresh(p)
           /\ first.err = ""
           /\ Len(first.buckets) > Len(store[c.ws].buckets)
           /\ Len(first.grants) > Len(store[c.ws].grants)

(***************************************************************************)
(* C18  Concurrent writers of one record.                                  *)
(***************************************************************************)
\* C18: a patch that is taken leaves the record with the bucket, request and grant
\* lists of the call that sent it, each the call's read snapshot with the call's
\* own changes, whatever another call stored since the read: a request stored
\* since, which the call neither read nor claims, is gone.
C18_LastWriterWins ==
    [][\A p \in Procs :
          LET c == calls[p]
              sent == StoragePatch(c.spec, c.update, c.ws, store)
          IN PatchStep(p) =>
                /\ store'[c.ws].buckets = sent.buckets
                /\ store'[c.ws].requests = sent.requests
                /\ store'[c.ws].grants = sent.grants
                /\ \A b \in OpBuckets :
                      (RequestsFor(c.spec, b) = {} /\ ClaimOps(p, b) = {})
                          => RequestsFor(store'[c.ws], b) = {}
      ]_vars

\* two calls read the record, one has patched in a request, the other, which
\* does not claim that bucket, is about to patch
C18_Witness ==
    \E p \in Procs, b \in OpBuckets :
        /\ calls[p].pc = "update"
        /\ Exists(store, calls[p].ws)
        /\ StoragePatch(calls[p].spec, calls[p].update, calls[p].ws, store).err = ""
        /\ RequestsFor(store[calls[p].ws], b) # {}
        /\ RequestsFor(calls[p].spec, b) = {}
        /\ ClaimOps(p, b) = {}

(***************************************************************************)
(* C19  Explicit inclusion.                                                *)
(***************************************************************************)
\* C19: a stored request with requestedAt of a listed record R has an entry in the
\* view of target T if and only if the principal of R is the principal of T or
\* the request's bucket is a discoverable bucket of T; the entry carries the
\* workspace name of R, the bucket and the stored request time.
C19_ExplicitInclusion ==
    IsView =>
        \A tr \in StoredRequests :
            LET included == \/ tr.principal = ViewPrincipal
                            \/ NameOf(tr.x) \in ViewDiscoverable
                hits == {i \in 1..Len(resp.requests) :
                            /\ resp.requests[i].workspace = tr.ws
                            /\ resp.requests[i].bucket = NameOf(tr.x)}
            IN (tr.x.isDict /\ Truthy(Get(tr.x.requestedAt))) =>
                  /\ included =>
                        \E i \in hits :
                            resp.requests[i].request_timestamp =
                                ParseIsoDt(tr.x.requestedAt).t
                  /\ ~included => hits = {}

(***************************************************************************)
(* C20  Grants invent no entries.                                          *)
(***************************************************************************)
\* the entries of the view before any grant is applied
BeforeGrants ==
    LET discoverable == DedupPreserve(BucketNames(store[resp.ws].buckets, TRUE))
    IN ImplicitLoop(ExplicitLoop([ok |-> TRUE, out |-> <<>>], Tagged(Listed, "requests"),
                                 discoverable, ViewPrincipal),
                    Tagged(Listed, "buckets"), discoverable, ViewPrincipal, resp.ws).out

\* C20: the view has the entries derived from the requests and the buckets, as
\* many and with the same workspace, bucket, permission and tag; an entry that is
\* not the first match of any stored grant is as it was before the grants, so a
\* grant that matches no entry changes nothing and a grant that matches changes
\* its first match only.
C20_GrantsInventNoEntries ==
    IsView =>
        /\ Len(resp.requests) = Len(BeforeGrants)
        /\ \A i \in 1..Len(resp.requests) :
              /\ resp.requests[i].workspace = BeforeGrants[i].workspace
              /\ resp.requests[i].bucket = BeforeGrants[i].bucket
              /\ resp.requests[i].permission = BeforeGrants[i].permission
              /\ resp.requests[i].principal = BeforeGrants[i].principal
              /\ GrantsMatching(i) = <<>> => resp.requests[i] = BeforeGrants[i]

\* a view with an entry a grant has decided, a second entry of the same bucket and
\* tag or not that no grant matches, and a stored grant that matches no entry
C20_Witness ==
    /\ IsView
    /\ \E i, j \in 1..Len(resp.requests) :
          /\ GrantsMatching(i) # <<>>
          /\ resp.requests[i] # BeforeGrants[i]
          /\ GrantsMatching(j) = <<>>
    /\ \E k \in 1..Len(StoredGrants) :
          /\ Truthy(Get(StoredGrants[k].x.grantedAt))
          /\ \A i \in 1..Len(resp.requests) : ~Matches(StoredGrants[k], i)

(***************************************************************************)
(* C21  Requests without requestedAt.                                      *)
(***************************************************************************)
\* the stored requests that are dicts, name a bucket and lack a requestedAt
Undated == {tr \in StoredRequests : tr.x.isDict /\ NameOf(tr.x) # ""
                                    /\ ~Truthy(Get(tr.x.requestedAt))}

ShownRequests == SelectSeq(Tagged(Listed, "requests"), Relevant)

\* the lower-cased reason of a stored request names one of the two words
Says(r, word, hyphenated) ==
    LET reason == Lower(Chars(OrEmpty(Get(r.reason))))
    IN Contains(reason, Chars(word)) \/ Contains(reason, Chars(hyphenated))

\* C22: the entry of a stored request has permission ReadOnly when the reason
\* contains "readonly" or "read-only", whether or not it contains "writeonly" or
\* "write-only" too; otherwise WriteOnly when it contains "writeonly" or
\* "write-only"; ReadWrite for every other reason; never None.
C22_ReasonPrecedence ==
    IsView =>
        \A k \in 1..Len(ShownRequests) :
            LET r == ShownRequests[k].x
                perm == resp.requests[k].permission
            IN /\ k <= Len(resp.requests)
               /\ perm # "None"
               /\ perm = IF Says(r, "readonly", "read-only") THEN "ReadOnly"
                         ELSE IF Says(r, "writeonly", "write-only") THEN "WriteOnly"
                         ELSE "ReadWrite"

\* a view with the entries of a request whose reason names both words and of a
\* request whose reason names write-only alone
C22_Witness ==
    /\ IsView
    /\ \E k \in 1..Len(ShownRequests) :
          /\ Says(ShownRequests[k].x, "readonly", "read-only")
          /\ Says(ShownRequests[k].x, "writeonly", "write-only")
          /\ resp.requests[k].permission = "ReadOnly"
    /\ \E k \in 1..Len(ShownRequests) :
          /\ ~Says(ShownRequests[k].x, "readonly", "read-only")
          /\ resp.requests[k].permission = "WriteOnly"

(***************************************************************************)
(* C23  Grants with an unknown permission.                                 *)
(***************************************************************************)
\* the stored permission is missing or is none of the four names, whatever its
\* case, hyphens and underscores
Unrecognized(g) ==
    \/ ~Truthy(Get(g.permission))
    \/ RemoveChar(RemoveChar(Lower(StripChars(Chars(g.permission))), "_"), "-")
          \notin {Chars("none"), Chars("readwrite"), Chars("writeonly"), Chars("readonly")}

\* the records with "None" stored in place of every such permission
DenialsSpelledOut ==
    [w \in Workspaces |->
        [store[w] EXCEPT !.grants =
            [i \in 1..Len(store[w].grants) |->
                IF store[w].grants[i].isDict /\ Unrecognized(store[w].grants[i])
                THEN [store[w].grants[i] EXCEPT !.permission = "None"]
                ELSE store[w].grants[i]]]]

\* C23: a stored grant whose permission is missing or unrecognized is read as a
\* denial: the entry it decides has denied_timestamp = grantedAt and no
\* grant_timestamp, and get_workspace answers, view or error, as it does for the
\* records with "None" stored in its place, so the permission itself never makes
\* the derivation raise.
C23_UnknownPermissionDenies ==
    /\ IsView =>
          \A i \in 1..Len(resp.requests) :
              LET gs == GrantsMatching(i)
              IN (gs # <<>> /\ Unrecognized(gs[Len(gs)].x)) =>
                    /\ resp.requests[i].denied_timestamp = ParseIsoDt(gs[Len(gs)].x.grantedAt).t
                    /\ resp.requests[i].denied_timestamp # NoTime
                    /\ resp.requests[i].grant_timestamp = NoTime
    /\ (IsView \/ resp.error = "ValidationError: BucketAccessRequest") =>
          resp = CombineWorkspace(DenialsSpelledOut, resp.ws, resp.listFailed, lab)

\* a view with an entry denied by a stored grant whose permission is "Admin" or
\* missing
C23_Witness ==
    /\ IsView
    /\ \E i \in 1..Len(resp.requests) :
          LET gs == GrantsMatching(i)
          IN /\ gs # <<>>
             /\ Unrecognized(gs[Len(gs)].x)
             /\ resp.requests[i].denied_timestamp # NoTime
             /\ resp.requests[i].grant_timestamp = NoTime

(***************************************************************************)
(* C25  Names without the prefix.                                          *)
(***************************************************************************)
\* C25: a call of get_workspace or delete_workspace with a name that does not
\* match the prefix pattern is answered 422 with nothing of any record in the
\* answer and leaves every record as it is; no call with a matching name is
\* answered 422.
C25_PrefixedNamesOnly ==
    [][resp'.op \in {"get_workspace", "delete_workspace"} =>
          IF MatchesNamePattern(resp'.ws)
          THEN resp'.status # 422
          ELSE /\ resp' = Response(resp'.op, resp'.ws, 422, "pattern")
               /\ store' = store
      ]_vars

\* delete_workspace was called with a name without the prefix while records
\* exist
C25_Witness ==
    /\ resp.op = "delete_workspace"
    /\ ~MatchesNamePattern(resp.ws)
    /\ resp.status = 422
    /\ \E w \in Workspaces : store[w].present

(***************************************************************************)
(* C27  What a grant changes.                                              *)
(***************************************************************************)
\* C27: an entry a stored grant is applied to differs from the entry derived
\* from the requests and the buckets in its three timestamps at most; its
\* permission is the one inferred from the reason of its stored request, or
\* ReadWrite for an implicit entry, and not the permission of the grant: a denied
\* entry does not have permission None.
C27_GrantChangesTimestampsOnly ==
    IsView =>
        \A i \in 1..Len(resp.requests) :
            LET e == resp.requests[i]
            IN GrantsMatching(i) # <<>> =>
                  /\ i <= Len(BeforeGrants)
                  /\ e = [BeforeGrants[i] EXCEPT
                             !.request_timestamp = e.request_timestamp,
                             !.grant_timestamp = e.grant_timestamp,
                             !.denied_timestamp = e.denied_timestamp]
                  /\ e.permission = IF i <= Len(ShownRequests)
                                    THEN PermFromReason(Get(ShownRequests[i].x.reason))
                                    ELSE "ReadWrite"
                  /\ e.permission # "None"

\* a view with an explicit entry whose reason asks for ReadOnly, decided by a
\* grant of another permission or by a denial
C27_Witness ==
    /\ IsView
    /\ \E i \in 1..Len(resp.requests) :
          LET gs == GrantsMatching(i)
          IN /\ gs # <<>>
             /\ i <= Len(ShownRequests)
             /\ resp.requests[i].permission = "ReadOnly"
             /\ PermFromStr(Get(gs[Len(gs)].x.permission)) # "ReadOnly"
             /\ resp.requests[i].grant_timestamp # NoTime
                   \/ resp.requests[i].denied_timestamp # NoTime

(***************************************************************************)
(* C28  Two paths in update_workspace.                                     *)
(***************************************************************************)
\* the ops of call p that meet a test, in the order of the batch
OpsWhere(p, Test(_)) ==
    SelectSeq(calls[p].update.patch_bucket_access_requests, Test)

\* the lists call p would send for a batch of ops
ListsFor(p, ops) ==
    PatchLoop([err |-> "", requests |-> calls[p].spec.requests,
               grants |-> calls[p].spec.grants],
              ops, calls[p].ws, store)

\* C28: in a patch that is taken, the ops that name the patched workspace change
\* nothing in the grant list, with or without grant_timestamp or
\* denied_timestamp: the list is the one read, with the ops for other workspaces
\* applied.  The ops that name another workspace change nothing in the request
\* list, and those of them with neither timestamp change nothing at all.
C28_DisjointPaths ==
    [][\A p \in Procs :
          LET c == calls[p]
              Own(o) == o.workspace = c.ws
              Other(o) == o.workspace # c.ws
              Deciding(o) == o.workspace # c.ws /\ Decision(o).any
          IN PatchStep(p) =>
                /\ store'[c.ws].grants = ListsFor(p, OpsWhere(p, Other)).grants
                /\ store'[c.ws].requests = ListsFor(p, OpsWhere(p, Own)).requests
                /\ store'[c.ws].grants = ListsFor(p, OpsWhere(p, Deciding)).grants
                /\ OpsWhere(p, Other) = <<>> => store'[c.ws].grants = c.spec.grants
                /\ OpsWhere(p, Own) = <<>> => store'[c.ws].requests = c.spec.requests
                /\ OpsWhere(p, Deciding) = <<>> => store'[c.ws].grants = c.spec.grants
      ]_vars

\* a call about to patch in an op that names the patched workspace and carries a
\* grant or a denial
C28_Witness ==
    \E p \in Procs :
        LET c == calls[p]
            ops == c.update.patch_bucket_access_requests
        IN /\ c.pc = "update"
           /\ Exists(store, c.ws)
           /\ StoragePatch(c.spec, c.update, c.ws, store).err = ""
           /\ \E k \in 1..Len(ops) : ops[k].workspace = c.ws /\ Decision(ops[k]).any

(***************************************************************************)
(* C29  The permission of a request made through update_workspace.         *)
(***************************************************************************)
\* C29: once a patch with an op that claims bucket b for the patched workspace W
\* is taken, whatever permission the op names, the stored request for b has the
\* reason "requesting access", and the view of W derived from the records holds
\* an entry (W, b) and shows every such entry with permission ReadWrite.
C29_ClaimDerivedReadWrite ==
    [][\A p \in Procs, b \in OpBuckets :
          LET c == calls[p]
          IN (PatchStep(p) /\ ClaimOps(p, b) # {}) =>
                /\ RequestsFor(store'[c.ws], b) # {}
                /\ \A i \in RequestsFor(store'[c.ws], b) :
                      store'[c.ws].requests[i].reason = "requesting access"
                /\ \A view \in {CombineWorkspace(store', c.ws, FALSE, lab')} :
                      LET shown == {e \in SeqRange(view.requests) :
                                       e.workspace = c.ws /\ e.bucket = b}
                      IN /\ view.status = 200
                         /\ shown # {}
                         /\ \A e \in shown : e.permission = "ReadWrite"
      ]_vars

\* a call about to patch in a first claim of a bucket, with permission ReadOnly
C29_Witness ==
    \E p \in Procs, b \in OpBuckets :
        LET c == calls[p]
            ops == c.update.patch_bucket_access_requests
        IN /\ c.pc = "update"
           /\ Exists(store, c.ws)
           /\ StoragePatch(c.spec, c.update, c.ws, store).err = ""
           /\ RequestsFor(c.spec, b) = {}
           /\ \E k \in ClaimOps(p, b) : ops[k].permission = "ReadOnly"

(***************************************************************************)
(* C24  Name collisions in create_workspace.                               *)
(***************************************************************************)
\* C24: a call of create_workspace goes on to create records only when no
\* Storage of the name exists, and is answered 422 otherwise; an answer given
\* while a Storage of the name exists is 422, or 502 for a call that found the
\* name free and lost it since, and leaves every Storage and Datalab as it is.
\* An answer 201 is given by the step that creates the Storage, as the call
\* asked for it, and the record is there after it: of two calls in flight for one
\* name the second to reach the cluster finds the record and is refused.
C24_NameCollisionRejected ==
    [][/\ \A p \in Procs :
             (calls[p].pc = "idle" /\ calls'[p].pc = "create") =>
                 /\ ~Exists(store, calls'[p].ws)
                 /\ store' = store /\ lab' = lab
       /\ resp'.op = "create_workspace" =>
             /\ Exists(store, resp'.ws) =>
                   /\ resp'.status = IF calls' = calls THEN 422 ELSE 502
                   /\ store' = store /\ lab' = lab
             /\ resp'.status = 422 => Exists(store, resp'.ws)
             /\ resp'.status = 201 =>
                   /\ ~Exists(store, resp'.ws)
                   /\ \E p \in Procs :
                         /\ calls[p].pc = "create" /\ calls'[p].pc = "idle"
                         /\ calls[p].ws = resp'.ws
                         /\ store'[resp'.ws] = NewStorage(resp'.ws, calls[p].owner)
                   /\ \A w \in Workspaces \ {resp'.ws} : store'[w] = store[w]
      ]_vars

\* one of two calls in flight for one name has been answered 201; the other has
\* still to send its create
C24_Witness ==
    /\ resp.op = "create_workspace" /\ resp.status = 201
    /\ Exists(store, resp.ws)
    /\ \E q \in Procs : calls[q].pc = "create" /\ calls[q].ws = resp.ws

(***************************************************************************)
(* C26  The status of a workspace.                                         *)
(***************************************************************************)
\* the secret get_workspace read for the workspace it answered about
SecretRead ==
    FetchSecret(lab, IF Truthy(store[resp.ws].principal) THEN store[resp.ws].principal
                     ELSE resp.ws)

\* C26: a workspace get_workspace returns has status ready when the storage
\* credentials secret of its principal exists and decodes to the keys, and
\* provisioning in every other case: no secret name configured, no secret, a
\* secret without data or one that is no base64.  A name without Storage record
\* is answered 404, and no answer but 200 carries a status.
C26_StatusFromCredentials ==
    resp.op = "get_workspace" =>
        /\ resp.status = 200 =>
              /\ resp.workspaceStatus \in {"ready", "provisioning"}
              /\ resp.workspaceStatus = "ready" <=> SecretRead = "keys"
        /\ (MatchesNamePattern(resp.ws) /\ ~Exists(store, resp.ws)) => resp.status = 404
        /\ resp.status # 200 => resp.workspaceStatus = ""

\* a workspace returned as ready, its secret decoded
C26_Witness ==
    /\ resp.op = "get_workspace" /\ resp.status = 200
    /\ resp.workspaceStatus = "ready"
    /\ SecretRead = "keys"

(***************************************************************************)
(* C30  Sessions.                                                          *)
(***************************************************************************)
\* the Datalab of a workspace name, none for a name that has no record
DatalabOf(l, w) == IF w \in Workspaces THEN l.datalabs[w] ELSE NoDatalab

\* what C30 says of the undeclared and the missing cases, on a step that answers
\* get_workspace_session for a name of the prefix pattern: the Datalab is patched
\* only for an undeclared session "default" under SESSION_MODE auto, the patch
\* changes the declared sessions alone, keeps each of them and adds "default"
\* once; with the CRD or the record missing, or another undeclared session, the
\* answer is 404 and nothing is written
PatchAndNotFound ==
    LET w == resp'.ws
        id == resp'.session
        dl == DatalabOf(lab, w)
        after == DatalabOf(lab', w)
        missing == ~lab.datalabCrd \/ ~dl.present
        declared == id \in SeqRange(dl.sessions)
        enabled == lab.sessionMode = "auto" /\ id = "default"
    IN /\ store' = store
       /\ lab' # lab =>
             /\ ~missing /\ ~declared /\ enabled
             /\ lab' = [lab EXCEPT !.datalabs[w].sessions = after.sessions]
             /\ SeqRange(after.sessions) = SeqRange(dl.sessions) \cup {"default"}
             /\ Cardinality({i \in 1..Len(after.sessions) :
                                after.sessions[i] = "default"}) = 1
       /\ (missing \/ (~declared /\ ~enabled)) => (resp'.status = 404 /\ lab' = lab)

\* the session the step answers about is declared by the Datalab it found
DeclaredSession ==
    /\ lab.datalabCrd
    /\ DatalabOf(lab, resp'.ws).present
    /\ resp'.session \in SeqRange(DatalabOf(lab, resp'.ws).sessions)

\* the JSON answers: 200 with the URL the status reports, else 202 to retry
UrlOrRetry ==
    LET url == DatalabOf(lab, resp'.ws).urls[resp'.session]
    IN IF url # "" THEN resp'.status = 200 /\ resp'.url = url /\ ~resp'.html
       ELSE /\ resp'.status = 202 /\ resp'.retryAfter = POLL_INTERVAL_SECONDS
            /\ resp'.url = ""

\* C30, as stated: the patch and the 404 as above, and for a declared session no
\* write and the answer 200 with the URL once the status reports one, else 202
\* with Retry-After.
C30_SessionUrlOrRetry ==
    [][(resp'.op = "get_workspace_session" /\ MatchesNamePattern(resp'.ws)) =>
          /\ PatchAndNotFound
          /\ DeclaredSession => (lab' = lab /\ UrlOrRetry)
      ]_vars

\* C30, as the code has it: the patch and the 404 as above; for a declared
\* session no write, and the answer to a request that accepts text/html is 200
\* with the waiter page, whatever the status reports, while every other request
\* gets 200 with the URL once the status reports one, else 202 with Retry-After.
C30_SessionUrlOrRetryUnlessHtml ==
    [][(resp'.op = "get_workspace_session" /\ MatchesNamePattern(resp'.ws)) =>
          /\ PatchAndNotFound
          /\ DeclaredSession =>
                /\ lab' = lab
                /\ IF resp'.html
                   THEN resp'.status = 200 /\ resp'.url = "" /\ resp'.retryAfter = 0
                   ELSE UrlOrRetry
      ]_vars

\* "default" was asked for under SESSION_MODE auto of a Datalab that declared
\* "s1" alone: the Datalab now declares both, and the call was told to retry
C30_Witness ==
    /\ resp.op = "get_workspace_session" /\ resp.session = "default"
    /\ resp.status = 202
    /\ lab.sessionMode = "auto"
    /\ DatalabOf(lab, resp.ws).sessions = <<"s1", "default">>

====
